---------------------------- MODULE Spec2Model ----------------------------
(***************************************************************************)
(* Model of the extraction engine of batch_docx_to_h5p.py: the three       *)
(* passes of CompleteH5PConverter over a document's paragraphs             *)
(* (multiple choice, true/false, crossword), process_docx and              *)
(* process_folder.                                                         *)
(*                                                                         *)
(* Text is kept as TLA+ strings; TLC evaluates Len, SubSeq, Tail and \o on *)
(* strings, so every regular expression and string method of the source is *)
(* modelled on the characters it reads.  A run's bold attribute is kept as *)
(* its truth value (python-docx gives True, False or None; the source only *)
(* ever tests it for truth).                                               *)
(*                                                                         *)
(* The characters of a text are those of U+0001 to U+00FE: the character   *)
(* classes and the case mappings below are those of Python over that       *)
(* range.  The blanks and letters of Unicode beyond it, and U+00FF, whose  *)
(* upper case is U+0178, cannot be written in a TLA+ string.  The          *)
(* paragraphs of ParaLib, which the states hold, keep to ASCII, the blanks *)
(* of ASCII other than the space included.                                 *)
(***************************************************************************)
EXTENDS Integers, Sequences, FiniteSets, TLC

(***************************************************************************)
(* State.                                                                  *)
(***************************************************************************)
VARIABLES
  doc,        \* the paragraphs of the document being processed
  rels,       \* the relationships of its document part (doc.part.rels), in order
  queue,      \* batch mode: the files of the folder not yet processed
  batch,      \* TRUE in batch mode (process_folder), FALSE in single-file mode
  pc,         \* where the converter is: idle, open, mc, tf, cw, save, raised
  idx,        \* the loop index of the multiple-choice and true/false passes
  calls,      \* calls of process_docx made on this converter
  \* the fields of CompleteH5PConverter
  multiple_choice_questions, true_false_questions, crossword_puzzles,
  images, shared_image_id,
  \* the locals of extract_multiple_choice_questions
  in_mc_section, section_image_id, questions_in_current_section,
  \* the local of extract_true_false_questions
  in_true_false_section,
  \* the locals of extract_crossword_puzzles: crosswords, current_crossword,
  \* current_orientation, in_crossword_section, collecting_clues,
  \* clue_counter and the cursor i
  cw,
  \* history, read by the properties only
  first_result,  \* the three lists when the first call of process_docx ended
  tf_from,       \* for each true/false question, its paragraph's index
  mc_from,       \* for each multiple-choice question, its paragraph's index
  failed,        \* calls of process_docx that raised
  cw_head,       \* the index of the header of the crossword in progress
  cw_from,       \* for each crossword of the list, its header's index
  \* run_pipeline.py
  args,                  \* the command line: --stage, --skip-translations
  fs,                    \* the project root: the scripts and folders it holds
  translations_enabled,  \* the field of H5PPipeline
  ppc,           \* where the pipeline is: off, start, setup, stage1, stage2,
                 \* stage3, stage3_run (before subprocess.run), stage4, exit
  success,       \* the value run_stage or run_full_pipeline returned (at exit)
  executed,      \* history: the scripts run as subprocesses, in order
  outcome        \* history: how setup and each stage ended

(***************************************************************************)
(* Strings: the str methods and the regular-expression classes used.       *)
(***************************************************************************)
\* Python's None, and a value v that stands where None may stand: a text
\* or None is kept as <<text>> or <<>>, so that no text is None
None == <<>>
Some(v) == <<v>>
Value(o) == o[1]

\* the element of a one-element set; The({F(x) : x \in {e}}) is F(e), e taken once
The(S) == CHOOSE x \in S : TRUE

\* min(S)
Min(S) == CHOOSE x \in S : \A y \in S : x <= y

\* max(S)
Max(S) == CHOOSE x \in S : \A y \in S : y <= x

Ch(s, k) == IF 1 <= k /\ k <= Len(s) THEN SubSeq(s, k, k) ELSE ""

UpperChars == "ABCDEFGHIJKLMNOPQRSTUVWXYZ"
LowerChars == "abcdefghijklmnopqrstuvwxyz"
DigitChars == "0123456789"

UpperSet == {Ch(UpperChars, k) : k \in 1..26}
DigitSet == {Ch(DigitChars, k) : k \in 1..10}
\* str.isspace(), which \s, str.strip() and str.split() go by: \t \n \v \f
\* \r, U+001C to U+001F, the space, U+0085 and the no-break space U+00A0
SpaceSet == {" ", "\n", "\t", "\r", "\f", "", "", "", "",
             "", "", " "}

\* the letters beyond ASCII that have an upper and a lower case, pair by pair
CasedUpperChars == UpperChars \o "ÀÁÂÃÄÅÆÇÈÉÊËÌÍÎÏÐÑÒÓÔÕÖØÙÚÛÜÝÞ"
CasedLowerChars == LowerChars \o "àáâãäåæçèéêëìíîïðñòóôõöøùúûüýþ"
CasedUpperSet == {Ch(CasedUpperChars, k) : k \in 1..Len(CasedUpperChars)}
CasedLowerSet == {Ch(CasedLowerChars, k) : k \in 1..Len(CasedLowerChars)}

\* \w of a str pattern: str.isalnum() or the underscore
WordSet == CasedUpperSet \cup CasedLowerSet \cup DigitSet
              \cup {"_", "ª", "²", "³", "µ", "¹", "º", "¼", "½", "¾", "ß", "ÿ"}

\* str.lower() of one character
LowerCh(c) ==
  IF c \in CasedUpperSet
  THEN Ch(CasedLowerChars,
          CHOOSE k \in 1..Len(CasedUpperChars) : Ch(CasedUpperChars, k) = c)
  ELSE c

\* str.upper() of one character: a text, of two characters for the sharp s
UpperCh(c) ==
  IF c \in CasedLowerSet
  THEN Ch(CasedUpperChars,
          CHOOSE k \in 1..Len(CasedLowerChars) : Ch(CasedLowerChars, k) = c)
  ELSE IF c = "ß" THEN "SS"
  ELSE IF c = "µ" THEN "Μ"
  ELSE c

\* str.lower(), built by halves
Lower(s) ==
  LET part[a \in 0..Len(s), b \in 0..Len(s)] ==
        IF b <= a THEN ""
        ELSE IF b = a + 1 THEN LowerCh(Ch(s, b))
        ELSE part[a, (a + b) \div 2] \o part[(a + b) \div 2, b]
  IN part[0, Len(s)]

\* str.upper(), built by halves
Upper(s) ==
  LET part[a \in 0..Len(s), b \in 0..Len(s)] ==
        IF b <= a THEN ""
        ELSE IF b = a + 1 THEN UpperCh(Ch(s, b))
        ELSE part[a, (a + b) \div 2] \o part[(a + b) \div 2, b]
  IN part[0, Len(s)]

\* s[a:b] of Python, 0-based and half-open, for 0 <= a and b <= len(s)
Slice(s, a, b) == IF a < b THEN SubSeq(s, a + 1, b) ELSE ""

LStrip(s) ==
  LET from[k \in 0..Len(s)] ==
        IF k < Len(s) /\ Ch(s, k + 1) \in SpaceSet THEN from[k + 1] ELSE k
  IN Slice(s, from[0], Len(s))

RStrip(s) ==
  LET upto[k \in 0..Len(s)] ==
        IF k > 0 /\ Ch(s, k) \in SpaceSet THEN upto[k - 1] ELSE k
  IN Slice(s, 0, upto[Len(s)])

\* str.strip()
Strip(s) == RStrip(LStrip(s))

\* str.rstrip('.')
RStripDots(s) ==
  LET upto[k \in 0..Len(s)] ==
        IF k > 0 /\ Ch(s, k) = "." THEN upto[k - 1] ELSE k
  IN Slice(s, 0, upto[Len(s)])

\* the pattern text `lit` stands at 0-based offset a of s
LitAt(s, a, lit) ==
  a >= 0 /\ a + Len(lit) <= Len(s) /\ Slice(s, a, a + Len(lit)) = lit

StartsWith(s, lit) == LitAt(s, 0, lit)
EndsWith(s, lit) == LitAt(s, Len(s) - Len(lit), lit)

\* `lit in s`
Contains(s, lit) == \E a \in 0..Len(s) : LitAt(s, a, lit)

\* the offset after the longest run of characters of `class` from offset a
SkipClass(s, a, class) ==
  LET skip[k \in 0..Len(s)] ==
        IF k < Len(s) /\ Ch(s, k + 1) \in class THEN skip[k + 1] ELSE k
  IN IF a < Len(s) THEN skip[a] ELSE a

\* str.split('\n'): the lines, the empty ones kept
SplitLines(s) ==
  LET breaks == {k \in 0..Len(s) : k = Len(s) \/ Ch(s, k + 1) = "\n"}
      \* the offset of the j-th break
      break(j) == CHOOSE k \in breaks :
                     Cardinality({b \in breaks : b < k}) = j - 1
  IN [j \in 1..Cardinality(breaks) |->
        Slice(s, IF j = 1 THEN 0 ELSE break(j - 1) + 1, break(j))]

\* a faulty variant of CollapseWs, for fault injection: the text is stripped
\* and its inner whitespace left as it is
strip_without_collapse(s) == Strip(s)

\* ' '.join(s.split()): whitespace runs collapsed, the ends trimmed
CollapseWs(s) ==
  LET starts == {k \in 0..Len(s) - 1 :
                   /\ Ch(s, k + 1) \notin SpaceSet
                   /\ (k = 0 \/ Ch(s, k) \in SpaceSet)}
      start(j) == CHOOSE k \in starts :
                     Cardinality({b \in starts : b < k}) = j - 1
      word(j) == LET ends == {e \in start(j) + 1..Len(s) :
                                e = Len(s) \/ Ch(s, e + 1) \in SpaceSet}
                 IN Slice(s, start(j), CHOOSE e \in ends : \A x \in ends : e <= x)
      joined[j \in 0..Cardinality(starts)] ==
        IF j = 0 THEN ""
        ELSE IF j = 1 THEN word(1)
        ELSE joined[j - 1] \o " " \o word(j)
  IN joined[Cardinality(starts)]

\* a word boundary \b stands at 0-based offset a of s
WordBoundary(s, a) == (Ch(s, a) \in WordSet) # (Ch(s, a + 1) \in WordSet)


(***************************************************************************)
(* The document model: a paragraph is its runs (text, bold) and the embed  *)
(* id of the picture it holds (None without one); a document is a sequence *)
(* of paragraphs, written as indices into ParaLib.                         *)
(***************************************************************************)
R(t, b) == [text |-> t, bold |-> b]
P(runs) == [runs |-> runs, image |-> None]
Pic(id) == [runs |-> <<>>, image |-> Some(id)]

ParaLib == <<
  (* 1*) P(<<R("True or False", TRUE)>>),
  (* 2*) P(<<R("The sky is green. ", FALSE), R("False", TRUE)>>),
  (* 3*) P(<<R("Fish can fly. True", FALSE)>>),
  (* 4*) P(<<R("Water is wet", FALSE), R(" ", FALSE), R("True", TRUE)>>),
  (* 5*) P(<<R("Activity 2: Quiz", TRUE)>>),
  (* 6*) P(<<R("**Activity 2 Quiz**", FALSE)>>),
  (* 7*) P(<<R(" ", FALSE)>>),
  (* 8*) P(<<R("Activity 1: Quiz", FALSE)>>),
  (* 9*) P(<<R("Activity 2 quiz questions", FALSE)>>),
  (*10*) P(<<R("Activity 12: Review", FALSE)>>),
  (*11*) P(<<R("3. Which planet is closest to the sun?\n", FALSE),
             R("A. Venus\n", FALSE), R("B. Mercury\n", TRUE),
             R("C. Earth\n", FALSE), R("D. Mars", FALSE)>>),
  (*12*) P(<<R("3. Which planet is closest to the sun?\nA. Venus\n", FALSE),
             R("B. Mercury", TRUE), R("\nC. Earth\nD. Mars", FALSE)>>),
  (*13*) Pic("rId5"),
  (*14*) P(<<R("Activity 3, Part I - Crossword Puzzle: Water", TRUE)>>),
  (*15*) P(<<R("Activity 3 Part II Crossword Puzzle: Unit 2", TRUE)>>),
  (*16*) P(<<R("Activity 4: Review", FALSE)>>),
  (*17*) P(<<R("Across", TRUE)>>),
  (*18*) P(<<R("Down", TRUE)>>),
  (*19*) P(<<R("4. A frozen form of water", FALSE)>>),
  (*20*) P(<<R("ICE", FALSE)>>),
  (*21*) P(<<R("Clues:", FALSE)>>),
  (*22*) P(<<R("5. Water as a gas (5 letters)", FALSE)>>),
  (*23*) P(<<R("DRY  ICE", FALSE)>>),
  (*24*) P(<<R("7. Which is a gas?\nA. Ice\nB. Steam\nC. Rain\nD. Snow\nA. Fog",
               FALSE)>>),
  (*25*) P(<<R("Water as a gas (5 letters)", FALSE)>>),
  (*26*) P(<<R("STEAM", TRUE)>>),
  (*27*) P(<<R("Answer: ", TRUE), R("STEAM", TRUE)>>),
  (*28*) P(<<R("The sea", FALSE), R(" ", FALSE), R("is dry. False", FALSE)>>),
  (*29*) P(<<R("Across\n1. Frozen water ", FALSE), R("ice  cube", TRUE)>>),
  (*30*) P(<<R("Down\n1. Solid water ", FALSE), R("ICE", TRUE),
             R("\n2. Water vapour ", FALSE), R("dry  steam", TRUE),
             R(" ok", TRUE)>>),
  (*31*) P(<<R("Across\n1. Frozen water", FALSE), R(" it", TRUE)>>),
  \* blanks other than the space, the tab and the line feed: a carriage
  \* return, a vertical tab (U+000B) and a unit separator (U+001F)
  (*32*) P(<<R("Ice is cold.\r", FALSE), R("TRUE", TRUE), R("", FALSE)>>),
  (*33*) P(<<R("Down\n1. Hot season", FALSE), R("sun\rup", TRUE)>>)
>>

JoinRuns(runs) ==
  LET join[k \in 0..Len(runs)] ==
        IF k = 0 THEN "" ELSE join[k - 1] \o runs[k].text
  IN join[Len(runs)]

\* paragraph.text: the run texts joined
ParaText(para) == JoinRuns(para.runs)

(***************************************************************************)
(* True/False extraction.                                                  *)
(***************************************************************************)
\* Python's truth of a str-or-None value
Truthy(v) == v # None /\ Value(v) # ""

\* a faulty variant of extract_text_with_formatting, for fault injection: the
\* whitespace-only runs are kept
all_runs_with_formatting(paragraph) == paragraph.runs

extract_text_with_formatting(paragraph) ==
  LET runs == paragraph.runs
      result[k \in 0..Len(runs)] ==
        IF k = 0 THEN <<>>
        ELSE IF Strip(runs[k].text) # "" THEN Append(result[k - 1], runs[k])
        ELSE result[k - 1]
  IN result[Len(runs)]

\* re.search of \b(true|false)\s*$ and of \*\*(true|false)\*\*\s*$ , IGNORECASE
is_true_false_question(text) ==
  LET clean_text == Strip(text)
      low == Lower(clean_text)
  IN \/ \E w \in {"true", "false"} :
          /\ EndsWith(low, w)
          /\ WordBoundary(clean_text, Len(clean_text) - Len(w))
     \/ \E w \in {"**true**", "**false**"} : EndsWith(low, w)

\* group(1) of \b(True|False)\b, IGNORECASE, matching at offset a; None without
TrueFalseAt(s, a) ==
  IF /\ a + 4 <= Len(s)
     /\ Lower(Slice(s, a, a + 4)) = "true"
     /\ WordBoundary(s, a) /\ WordBoundary(s, a + 4)
  THEN Some(Slice(s, a, a + 4))
  ELSE IF /\ a + 5 <= Len(s)
          /\ Lower(Slice(s, a, a + 5)) = "false"
          /\ WordBoundary(s, a) /\ WordBoundary(s, a + 5)
  THEN Some(Slice(s, a, a + 5))
  ELSE None

\* the loop over formatted_parts: the bold attribute of the first part whose
\* span holds answer_start, False when no part does
bold_at(formatted_parts, answer_start) ==
  LET n == Len(formatted_parts)
      current_pos[k \in 1..n + 1] ==
        IF k = 1 THEN 0
        ELSE current_pos[k - 1] + Len(formatted_parts[k - 1].text)
      is_bold[k \in 1..n + 1] ==
        IF k > n THEN FALSE
        ELSE IF current_pos[k] <= answer_start
                /\ answer_start < current_pos[k] + Len(formatted_parts[k].text)
        THEN formatted_parts[k].bold
        ELSE is_bold[k + 1]
  IN is_bold[1]

Negate(answer) == IF answer = "true" THEN "false" ELSE "true"

parse_true_false_from_runs(paragraph) ==
  The({The({The({
    IF matches = {}
    THEN [question_text |-> None, correct_answer |-> None]
    ELSE The({
      [question_text |-> Some(Strip(Slice(full_text, 0, answer_start))),
       correct_answer |->
         IF bold_at(formatted_parts, answer_start)
         THEN Some(Lower(Value(TrueFalseAt(full_text, answer_start))))
         ELSE Some(Negate(Lower(Value(TrueFalseAt(full_text,
                                                  answer_start)))))]
      \* answer_match = true_false_matches[-1]
      : answer_start \in {Max(matches)}})
    : matches \in {{a \in 0..Len(full_text) : TrueFalseAt(full_text, a) # None}}})
    : full_text \in {JoinRuns(formatted_parts)}})
    : formatted_parts \in {extract_text_with_formatting(paragraph)}})

\* 'true or false' in text.lower() or 'true/false' in text.lower()
is_true_false_header(text) ==
  Contains(Lower(text), "true or false") \/ Contains(Lower(text), "true/false")

\* the test that ends a True/False section
is_true_false_exit(text) ==
  /\ StartsWith(text, "**")
  /\ (Contains(Lower(text), "activity") \/ Contains(Lower(text), "quiz"))
  /\ ~Contains(Lower(text), "true")
  /\ ~Contains(Lower(text), "false")

(***************************************************************************)
(* Multiple-choice extraction.                                             *)
(***************************************************************************)
\* first embed id among the paragraphs of
\* range(max(0, para_index - 5), min(len(doc.paragraphs), para_index + 3))
find_image_near_paragraph(paragraphs, para_index) ==
  LET lo == IF para_index - 5 > 0 THEN para_index - 5 ELSE 0
      hi == IF Len(paragraphs) < para_index + 3 THEN Len(paragraphs) ELSE para_index + 3
      hits == {k \in lo..hi - 1 : Truthy(ParaLib[paragraphs[k + 1]].image)}
  IN IF hits = {} THEN None
     ELSE ParaLib[paragraphs[(CHOOSE k \in hits : \A j \in hits : k <= j) + 1]].image

\* re.search of Activity\s*1.*quiz or of quiz.*question, IGNORECASE
is_mc_section_header(text) ==
  LET low == Lower(text)
      SameLine(a, b) == ~Contains(Slice(low, a, b), "\n")
  IN \/ \E a \in 0..Len(low) :
          /\ LitAt(low, a, "activity")
          /\ LET b == SkipClass(low, a + 8, SpaceSet)
             IN /\ Ch(low, b + 1) = "1"
                /\ \E c \in b + 1..Len(low) :
                      LitAt(low, c, "quiz") /\ SameLine(b + 1, c)
     \/ \E a \in 0..Len(low) :
          /\ LitAt(low, a, "quiz")
          /\ \E c \in a + 4..Len(low) :
                LitAt(low, c, "question") /\ SameLine(a + 4, c)

\* re.search of Activity\s*[2-9], IGNORECASE
is_mc_section_exit(text) ==
  LET low == Lower(text)
  IN \E a \in 0..Len(low) :
        /\ LitAt(low, a, "activity")
        /\ Ch(low, SkipClass(low, a + 8, SpaceSet) + 1)
             \in {"2", "3", "4", "5", "6", "7", "8", "9"}

\* re.match of ^(\d+)\.\s*(.+?)\?\s*$ on the first line:
\* group(2).strip() + "?", or None without a match
question_match(first_line) ==
  LET d == SkipClass(first_line, 0, DigitSet)
      rest == RStrip(Slice(first_line, d + 1, Len(first_line)))
  IN IF /\ d >= 1
        /\ Ch(first_line, d + 1) = "."
        /\ Len(rest) >= 2
        /\ Ch(rest, Len(rest)) = "?"
     THEN Some(Strip(Slice(rest, 0, Len(rest) - 1)) \o "?")
     ELSE None

\* re.match of ^([A-D])\.\s on a line
option_letter_match(line) ==
  /\ Ch(line, 1) \in {"A", "B", "C", "D"}
  /\ Ch(line, 2) = "."
  /\ Ch(line, 3) \in SpaceSet

\* re.match of ^([A-D])\.\s+(.+)$ on a line
option_text_match(line) == option_letter_match(line) /\ Len(line) >= 4

\* the while loop that moves the cursor to the line the run starts in
advance_line(lines, current_line, current_pos) ==
  LET at[l \in current_line..Len(lines)] ==
        LET pos == IF l = current_line THEN current_pos ELSE 0
        IN IF l < Len(lines) /\ ~(pos < Len(lines[l + 1]))
           THEN at[l + 1]
           ELSE [current_line |-> l, current_pos |-> pos]
  IN at[current_line]

\* the loop over para.runs that fills option_runs_map
map_option_runs(runs, lines) ==
  LET after[k \in 0..Len(runs)] ==
        IF k = 0
        THEN [current_line |-> 0, current_pos |-> 0,
              option_runs_map |-> [letter \in {"A", "B", "C", "D"} |-> <<>>]]
        ELSE LET before == after[k - 1]
                 at == advance_line(lines, before.current_line,
                                    before.current_pos)
                 line == IF at.current_line < Len(lines)
                         THEN lines[at.current_line + 1] ELSE ""
             IN [current_line |-> at.current_line,
                 current_pos |-> at.current_pos + Len(runs[k].text),
                 option_runs_map |->
                   IF option_letter_match(line)
                   THEN [before.option_runs_map
                           EXCEPT ![Ch(line, 1)] = Append(@, runs[k])]
                   ELSE before.option_runs_map]
  IN after[Len(runs)].option_runs_map

\* any(run.bold for run in option_runs if run.text.strip())
any_bold(option_runs) ==
  \E k \in DOMAIN option_runs :
     option_runs[k].bold /\ Strip(option_runs[k].text) # ""

\* the loop over lines[1:] that builds the options
build_options(lines, option_runs_map) ==
  LET options[k \in 1..Len(lines)] ==
        IF k = 1 THEN <<>>
        ELSE LET line == lines[k]
             IN IF option_text_match(line)
                THEN Append(options[k - 1],
                       [text |-> RStripDots(Strip(Slice(line, 2, Len(line)))),
                        correct |-> any_bold(option_runs_map[Ch(line, 1)])])
                ELSE options[k - 1]
  IN options[Len(lines)]

\* the question a paragraph gives (its text and options), options empty
\* when it gives none
parse_multiple_choice(para) ==
  The({The({
    IF question_match(lines[1]) # None /\ Len(lines) > 1
    THEN [question |-> question_match(lines[1]),
          options |-> build_options(lines, map_option_runs(para.runs, lines))]
    ELSE [question |-> None, options |-> <<>>]
    : lines \in {SplitLines(text)}})
    : text \in {Strip(ParaText(para))}})

(***************************************************************************)
(* Crossword extraction: the patterns.                                     *)
(***************************************************************************)
NoMatch == [matched |-> FALSE, part_num |-> "", title_suffix |-> ""]

\* Activity\s*3,?\s*Part\s+(I+)[-\s]*Crossword\s*Puzzle:?(.*)$ , IGNORECASE,
\* matching from offset a of text, low its lower case.  The offsets the match
\* reaches:  b after Activity\s*    d after 3,?\s*       e after Part\s+
\*           f after (I+)           g after [-\s]*       h after Crossword\s*
\*           k after Puzzle:?
crossword_match_at(text, low, a) ==
  The({The({The({The({The({The({The({
    IF /\ LitAt(low, a, "activity")
       /\ Ch(low, b + 1) = "3"
       /\ LitAt(low, d, "part")
       /\ e > d + 4
       /\ f > e
       /\ LitAt(low, g, "crossword")
       /\ LitAt(low, h, "puzzle")
       /\ ~Contains(Slice(text, k, Len(text)), "\n")
    THEN [matched |-> TRUE,
          part_num |-> Slice(text, e, f),
          title_suffix |-> Strip(Slice(text, k, Len(text)))]
    ELSE NoMatch
    : k \in {IF Ch(low, h + 7) = ":" THEN h + 7 ELSE h + 6}})
    : h \in {SkipClass(low, g + 9, SpaceSet)}})
    : g \in {SkipClass(low, f, SpaceSet \cup {"-"})}})
    : f \in {SkipClass(low, e, {"i"})}})
    : e \in {SkipClass(low, d + 4, SpaceSet)}})
    : d \in {SkipClass(low, IF Ch(low, b + 2) = "," THEN b + 2 ELSE b + 1,
                       SpaceSet)}})
    : b \in {SkipClass(low, a + 8, SpaceSet)}})

\* re.search: the leftmost match
crossword_match(text) ==
  The({The({
    IF starts = {} THEN NoMatch
    ELSE crossword_match_at(text, low, Min(starts))
    : starts \in {{a \in 0..Len(text) :
                     crossword_match_at(text, low, a).matched}}})
    : low \in {Lower(text)}})

full_title(m) ==
  "Activity 3, Part " \o m.part_num \o " - Crossword Puzzle"
    \o (IF m.title_suffix # "" THEN ": " \o m.title_suffix ELSE "")

\* re.search of Unit\s*2 or of Activity\s*4, IGNORECASE
is_crossword_exit(text) ==
  LET low == Lower(text)
  IN \/ \E a \in 0..Len(low) :
          LitAt(low, a, "unit") /\ Ch(low, SkipClass(low, a + 4, SpaceSet) + 1) = "2"
     \/ \E a \in 0..Len(low) :
          LitAt(low, a, "activity")
            /\ Ch(low, SkipClass(low, a + 8, SpaceSet) + 1) = "4"

\* re.match of ^Clues?:?\s*$ , IGNORECASE, on stripped text
is_clues_marker(text) == Lower(text) \in {"clue", "clues", "clue:", "clues:"}

\* group(1).lower() of ^(Across|Down), IGNORECASE; None without a match
orientation_match(text) ==
  IF StartsWith(Lower(text), "across") THEN Some("across")
  ELSE IF StartsWith(Lower(text), "down") THEN Some("down")
  ELSE None

\* re.match of ^(\d+)\.\s+(.+)$ on a stripped line: group(2).strip(), or None
inline_clue_match(line) ==
  LET d == SkipClass(line, 0, DigitSet)
  IN IF d >= 1 /\ Ch(line, d + 1) = "." /\ Ch(line, d + 2) \in SpaceSet
        /\ Len(line) >= d + 3
     THEN Some(Strip(Slice(line, d + 1, Len(line))))
     ELSE None

\* the rest of the pattern, (?:\s*\(([^)]+)\))?\s*$ , matches text from offset
\* e: blanks to the end; or blanks, "(", one character or more that are not
\* ")", the first ")" and blanks to the end
clue_tail_ok(text, e) ==
  \/ SkipClass(text, e, SpaceSet) = Len(text)
  \/ LET o == SkipClass(text, e, SpaceSet)
         closes == {c \in o + 1..Len(text) - 1 : Ch(text, c + 1) = ")"}
     IN /\ Ch(text, o + 1) = "("
        /\ closes # {}
        /\ Min(closes) >= o + 2
        /\ SkipClass(text, Min(closes) + 1, SpaceSet) = Len(text)

\* a faulty variant of numbered_clue_match, for fault injection: group(2) taken
\* from the start of the text, so the clue keeps its number
numbered_clue_keeps_number(text) ==
  IF SkipClass(text, 0, DigitSet) >= 1
     /\ Ch(text, SkipClass(text, 0, DigitSet) + 1) = "."
     /\ Ch(text, SkipClass(text, 0, DigitSet) + 2) \in SpaceSet
  THEN Some(text)
  ELSE None

\* re.match of ^(\d+)\.\s+(.+?)(?:\s*\(([^)]+)\))?\s*$ on stripped text:
\* group(2).strip(), or None without a match.  \s+ takes the longest run of
\* blanks from which the rest matches and gives blanks back otherwise, so
\* group(2) starts at the last offset g of the run from which it can match;
\* (.+?) takes the fewest characters, none of them a line feed
numbered_clue_match(text) ==
  LET d == SkipClass(text, 0, DigitSet)
      blanks == SkipClass(text, d + 1, SpaceSet)
      ends(g) == {e \in g + 1..Len(text) :
                    ~Contains(Slice(text, g, e), "\n") /\ clue_tail_ok(text, e)}
      starts == {g \in d + 2..blanks : ends(g) # {}}
  IN IF d >= 1 /\ Ch(text, d + 1) = "." /\ starts # {}
     THEN Some(Strip(Slice(text, Max(starts), Min(ends(Max(starts))))))
     ELSE None

\* re.match of ^[A-Z][A-Z\s-]+$
is_all_caps(s) ==
  /\ Len(s) >= 2
  /\ Ch(s, 1) \in UpperSet
  /\ \A k \in 2..Len(s) : Ch(s, k) \in UpperSet \cup SpaceSet \cup {"-"}

\* [run.text.strip().upper() for run in runs if run.bold and run.text.strip()
\*  and len(run.text.strip()) > min_len]
bold_texts(runs, min_len) ==
  LET found[k \in 0..Len(runs)] ==
        IF k = 0 THEN <<>>
        ELSE LET t == Strip(runs[k].text)
             IN IF runs[k].bold /\ t # "" /\ Len(t) > min_len
                THEN Append(found[k - 1], Upper(t))
                ELSE found[k - 1]
  IN found[Len(runs)]

\* a faulty variant of inline_clues, for fault injection: a numbered line is
\* paired with the first bold run only
inline_clues_first_answer_only(lines, bold_answers, orientation) ==
  LET clues[k \in 0..Len(lines)] ==
        IF k = 0 THEN <<>>
        ELSE LET clue_text == inline_clue_match(Strip(lines[k]))
             IN IF clue_text # None /\ bold_answers # <<>>
                THEN Append(clues[k - 1],
                            [orientation |-> orientation,
                             clue |-> Value(clue_text),
                             answer |-> CollapseWs(Head(bold_answers))])
                ELSE clues[k - 1]
  IN clues[Len(lines)]

\* the clues an orientation paragraph holds inline: for every numbered line
\* of the text after the orientation word, one clue per bold run longer than
\* 2 characters
inline_clues(lines, bold_answers, orientation) ==
  LET clues[k \in 0..Len(lines)] ==
        IF k = 0 THEN <<>>
        ELSE LET clue_text == inline_clue_match(Strip(lines[k]))
             IN IF clue_text # None
                THEN clues[k - 1] \o
                       [j \in DOMAIN bold_answers |->
                          [orientation |-> orientation,
                           clue |-> Value(clue_text),
                           answer |-> CollapseWs(bold_answers[j])]]
                ELSE clues[k - 1]
  IN clues[Len(lines)]

(***************************************************************************)
(* What the passes read of one paragraph.  The table is a constant, so     *)
(* each pattern is matched once per paragraph of ParaLib.                  *)
(***************************************************************************)
Analyse(para) ==
  The({The({The({
    [text |-> text,
     tf_header |-> is_true_false_header(text),
     tf_exit |-> is_true_false_exit(text),
     tf_question |-> is_true_false_question(text),
     tf_parsed |-> parse_true_false_from_runs(para),
     mc_header |-> is_mc_section_header(text),
     mc_exit |-> is_mc_section_exit(text),
     mc_parsed |-> parse_multiple_choice(para),
     cw_match |-> crossword_match(text),
     cw_exit |-> is_crossword_exit(text),
     clues_marker |-> is_clues_marker(text),
     orientation |-> orientation,
     inline |-> IF rest_of_text = "" THEN <<>>
                ELSE inline_clues(SplitLines(rest_of_text),
                                  bold_texts(para.runs, 2),
                                  Value(orientation)),
     numbered_clue |-> numbered_clue_match(text),
     has_parens |-> Contains(text, "(") /\ Contains(text, ")"),
     all_caps |-> is_all_caps(text),
     bold_parts |-> bold_texts(para.runs, 0)]
    : rest_of_text \in {IF orientation = None THEN ""
                        ELSE Strip(Slice(text, Len(Value(orientation)),
                                         Len(text)))}})
    : orientation \in {orientation_match(text)}})
    : text \in {Strip(ParaText(para))}})

Analysis ==
  LET table[k \in 0..Len(ParaLib)] ==
        IF k = 0 THEN <<>> ELSE Append(table[k - 1], Analyse(ParaLib[k]))
  IN table[Len(ParaLib)]

(***************************************************************************)
(* The loop bodies of the three passes, as functions of the pass's state.  *)
(***************************************************************************)
\* one iteration of the loop of extract_true_false_questions on a paragraph
extract_true_false_questions_body(st, a) ==
  IF a.text = "" THEN st
  ELSE IF a.tf_header
  THEN [st EXCEPT !.in_true_false_section = TRUE]
  ELSE IF st.in_true_false_section /\ a.tf_exit
  THEN [st EXCEPT !.in_true_false_section = FALSE]
  ELSE IF /\ st.in_true_false_section
          /\ a.tf_question
          /\ Truthy(a.tf_parsed.question_text)
          /\ Truthy(a.tf_parsed.correct_answer)
  THEN [st EXCEPT !.true_false_questions =
          Append(@, [question |-> Value(a.tf_parsed.question_text),
                     correct_answer |-> Value(a.tf_parsed.correct_answer)])]
  ELSE st

\* a faulty variant of extract_multiple_choice_questions_body, for fault
\* injection: the exit test stands before the entry test
extract_multiple_choice_questions_body_exit_first(st, paragraphs, para_idx) ==
  The({
    IF a.text = "" THEN st
    ELSE IF a.mc_exit /\ st.in_mc_section
    THEN [st EXCEPT !.in_mc_section = FALSE,
                    !.shared_image_id =
                       IF Truthy(st.section_image_id)
                          /\ st.questions_in_current_section # <<>>
                       THEN st.section_image_id ELSE @]
    ELSE IF a.mc_header
    THEN [st EXCEPT !.in_mc_section = TRUE,
                    !.section_image_id = near_image_id]
    ELSE IF ~st.in_mc_section THEN st
    ELSE IF a.mc_parsed.options # <<>>
    THEN [st EXCEPT
            !.multiple_choice_questions =
               Append(@, [question |-> Value(a.mc_parsed.question),
                          options |-> a.mc_parsed.options,
                          image_id |-> IF Truthy(near_image_id)
                                       THEN near_image_id
                                       ELSE st.section_image_id]),
            !.questions_in_current_section =
               Append(@, Len(st.multiple_choice_questions))]
    ELSE st
    : a \in {Analysis[paragraphs[para_idx + 1]]},
      near_image_id \in {find_image_near_paragraph(paragraphs, para_idx)}})

\* one iteration of the loop of extract_multiple_choice_questions on the
\* paragraph at index idx
extract_multiple_choice_questions_body(st, paragraphs, para_idx) ==
  The({
    IF a.text = "" THEN st
    ELSE IF a.mc_header
    THEN [st EXCEPT !.in_mc_section = TRUE,
                    !.section_image_id = near_image_id]
    ELSE IF a.mc_exit /\ st.in_mc_section
    THEN [st EXCEPT !.in_mc_section = FALSE,
                    !.shared_image_id =
                       IF Truthy(st.section_image_id)
                          /\ st.questions_in_current_section # <<>>
                       THEN st.section_image_id ELSE @]
    ELSE IF ~st.in_mc_section THEN st
    ELSE IF a.mc_parsed.options # <<>>
    THEN [st EXCEPT
            !.multiple_choice_questions =
               Append(@, [question |-> Value(a.mc_parsed.question),
                          options |-> a.mc_parsed.options,
                          image_id |-> IF Truthy(near_image_id)
                                       THEN near_image_id
                                       ELSE st.section_image_id]),
            !.questions_in_current_section =
               Append(@, Len(st.multiple_choice_questions))]
    ELSE st
    : a \in {Analysis[paragraphs[para_idx + 1]]},
      \* self.find_image_near_paragraph(doc, idx), called by the header branch
      \* and by the question branch
      near_image_id \in {find_image_near_paragraph(paragraphs, para_idx)}})

\* current_crossword = None: no crossword in progress.  A crossword in
\* progress has a title that begins with "Activity 3, Part"
NoCrossword == [title |-> "", clues |-> <<>>]

\* the locals of extract_crossword_puzzles before its loop
cw_start == [crosswords |-> <<>>,
             current_crossword |-> NoCrossword,
             current_orientation |-> None,
             in_crossword_section |-> FALSE,
             collecting_clues |-> FALSE,
             clue_counter |-> 1,
             i |-> 0]

\* a faulty variant of append_if_clues, for fault injection: the test of
\* current_crossword.get('clues') left out
append_without_clues_test(crosswords, current_crossword) ==
  IF current_crossword # NoCrossword
  THEN Append(crosswords, current_crossword)
  ELSE crosswords

\* a faulty variant of append_if_clues, for fault injection: no test at all
append_always(crosswords, current_crossword) ==
  Append(crosswords, current_crossword)

\* if current_crossword and current_crossword.get('clues'):
\*     crosswords.append(current_crossword)
append_if_clues(crosswords, current_crossword) ==
  IF current_crossword # NoCrossword /\ current_crossword.clues # <<>>
  THEN Append(crosswords, current_crossword)
  ELSE crosswords

\* a faulty variant of current_after_exit, for fault injection: the crossword
\* in progress is kept after it was appended
current_kept_after_exit(current_crossword) == current_crossword

\* the exit branch: current_crossword = None, when the crossword was appended
current_after_exit(current_crossword) ==
  IF current_crossword # NoCrossword /\ current_crossword.clues # <<>>
  THEN NoCrossword
  ELSE current_crossword

\* a faulty variant of orientation_at_header, for fault injection: the
\* orientation of the previous crossword is kept
orientation_kept_at_header(current_orientation) == current_orientation

\* current_orientation = None, at a crossword header
orientation_at_header(current_orientation) == None

\* a faulty variant of cursor_after_pair, for fault injection: the answer
\* paragraph is not skipped
cursor_after_clue_only(i) == i + 1

\* i += 2 after a clue and its answer paragraph
cursor_after_pair(i) == i + 2

\* one iteration of the while loop of extract_crossword_puzzles, on the
\* paragraph at the cursor st.i
extract_crossword_puzzles_body(st, paragraphs) ==
  LET has_next == st.i + 1 < Len(paragraphs)
      step == [st EXCEPT !.i = @ + 1]
      with_clue(clue, answer) ==
        [st EXCEPT !.current_crossword.clues =
                      Append(@, [orientation |-> Value(st.current_orientation),
                                 clue |-> clue,
                                 answer |-> answer]),
                   !.i = cursor_after_pair(@)]
  IN The({
    IF a.text = "" THEN step
    ELSE IF a.cw_match.matched
    THEN [step EXCEPT
            !.crosswords = append_if_clues(@, st.current_crossword),
            !.current_crossword =
               [title |-> full_title(a.cw_match), clues |-> <<>>],
            !.in_crossword_section = TRUE,
            !.collecting_clues = FALSE,
            !.current_orientation = orientation_at_header(@),
            !.clue_counter = 1]
    ELSE IF a.cw_exit
    THEN [step EXCEPT
            !.crosswords = append_if_clues(@, st.current_crossword),
            !.current_crossword = current_after_exit(@),
            !.in_crossword_section = FALSE]
    ELSE IF ~st.in_crossword_section \/ st.current_crossword = NoCrossword
    THEN step
    ELSE IF a.clues_marker
    THEN [step EXCEPT !.collecting_clues = TRUE]
    ELSE IF a.orientation # None
    THEN [step EXCEPT !.current_orientation = a.orientation,
                      !.collecting_clues = TRUE,
                      !.clue_counter = 1,
                      !.current_crossword.clues = @ \o a.inline]
    ELSE IF ~st.collecting_clues \/ st.current_orientation = None
    THEN step
    ELSE IF a.numbered_clue # None
    THEN IF has_next /\ next.all_caps
         THEN with_clue(Value(a.numbered_clue), CollapseWs(next.text))
         ELSE step
    ELSE IF /\ a.has_parens
            /\ has_next
            /\ next.bold_parts # <<>>
            /\ is_all_caps(Head(next.bold_parts))
    THEN [with_clue(a.text, CollapseWs(Head(next.bold_parts)))
            EXCEPT !.clue_counter = @ + 1]
    ELSE step
    : a \in {Analysis[paragraphs[st.i + 1]]},
      \* doc.paragraphs[i + 1], read only when i + 1 < len(doc.paragraphs)
      next \in {Analysis[paragraphs[IF has_next THEN st.i + 2 ELSE st.i + 1]]}})

(***************************************************************************)
(* The passes as a whole, as functions of the converter's lists and of the  *)
(* document: the loop bodies applied to the paragraphs in order.            *)
(***************************************************************************)
\* extract_true_false_questions on a converter whose list is tfq
extract_true_false_questions(tfq, paragraphs) ==
  LET after[n \in 0..Len(paragraphs)] ==
        IF n = 0
        THEN [in_true_false_section |-> FALSE, true_false_questions |-> tfq]
        ELSE extract_true_false_questions_body(after[n - 1],
                                               Analysis[paragraphs[n]])
  IN after[Len(paragraphs)].true_false_questions

\* extract_multiple_choice_questions on a converter whose list is mcq and
\* whose shared image is shared
extract_multiple_choice_questions(mcq, shared, paragraphs) ==
  LET after[n \in 0..Len(paragraphs)] ==
        IF n = 0
        THEN [in_mc_section |-> FALSE,
              section_image_id |-> None,
              questions_in_current_section |-> <<>>,
              multiple_choice_questions |-> mcq,
              shared_image_id |-> shared]
        ELSE extract_multiple_choice_questions_body(after[n - 1], paragraphs,
                                                    n - 1)
  IN after[Len(paragraphs)]

\* extract_crossword_puzzles: the list it stores in self.crossword_puzzles
extract_crossword_puzzles(paragraphs) ==
  LET \* the state when the cursor leaves the document; the cursor moves by one
      \* or two, so Len(paragraphs) steps are enough
      after[n \in 0..Len(paragraphs)] ==
        IF n = 0 THEN cw_start
        ELSE IF after[n - 1].i < Len(paragraphs)
        THEN extract_crossword_puzzles_body(after[n - 1], paragraphs)
        ELSE after[n - 1]
      last == after[Len(paragraphs)]
  IN append_if_clues(last.crosswords, last.current_crossword)

(***************************************************************************)
(* Bounds and inputs.                                                      *)
(***************************************************************************)
\* paragraphs a document has after its opening
MaxParas == 2
\* calls of process_docx on one converter in single-file mode
MaxRuns == 2
\* files of a folder in batch mode
MaxFiles == 2

SeqsUpTo(S, n) == UNION {[1..k -> S] : k \in 0..n}

\* the documents: an opening (a section already begun, or none) followed by
\* up to MaxParas paragraphs of one kind of section
Kinds == {
  [openings |-> {<<>>, <<1>>}, lib |-> {1, 2, 3, 4, 5, 6, 7, 28, 32}],
  [openings |-> {<<>>, <<8>>}, lib |-> {5, 8, 9, 10, 11, 12, 13, 24}],
  [openings |-> {<<>>, <<14, 17>>, <<14, 17, 19, 20>>},
   lib |-> {14, 15, 16, 17, 18, 19, 20, 21, 22, 23, 25, 26, 27, 29, 30,
            31, 33}]
}

\* a relationship of the document part: its key in doc.part.rels, its
\* target_ref, and whether it is external (target_part raises on an external
\* relationship, that of a linked picture)
Rel(rel_id, target_ref, is_external) ==
  [rel_id |-> rel_id, target_ref |-> target_ref, is_external |-> is_external]

\* the relationships a document of these paragraphs may have.  Each embed id
\* of its paragraphs (rId5) is the key of a relationship.  Without a picture
\* among the paragraphs: no picture at all, or one in the header.  With one:
\* the picture alone; its file named without the word image; a second picture
\* in the header; a linked picture before it; a linked picture after it
Rels(d) ==
  IF \E k \in DOMAIN d : ParaLib[d[k]].image # None
  THEN {<<Rel("rId1", "styles.xml", FALSE),
          Rel("rId5", "media/image1.png", FALSE)>>,
        <<Rel("rId1", "styles.xml", FALSE),
          Rel("rId5", "media/rId5.jpg", FALSE)>>,
        <<Rel("rId1", "styles.xml", FALSE),
          Rel("rId5", "media/image1.png", FALSE),
          Rel("rId8", "media/image2.png", FALSE)>>,
        <<Rel("rId2", "media/image9.png", TRUE),
          Rel("rId5", "media/image1.png", FALSE)>>,
        <<Rel("rId5", "media/image1.png", FALSE),
          Rel("rId2", "media/image9.png", TRUE)>>}
  ELSE {<<Rel("rId1", "styles.xml", FALSE)>>,
        <<Rel("rId1", "styles.xml", FALSE),
          Rel("rId9", "media/image3.png", FALSE)>>}

Docs == UNION {{o \o b : o \in k.openings, b \in SeqsUpTo(k.lib, MaxParas)} :
               k \in Kinds}

\* the files a folder may hold
FolderDocs == {<<>>, <<1, 2, 3>>, <<8, 13, 11>>, <<14, 17, 19, 20>>,
               <<8, 11, 1, 2, 14, 17, 19, 20>>,
               <<9, 11, 15, 17, 22, 23>>,
               <<14, 17, 19, 20, 15, 18, 25, 26, 16>>,
               <<14, 17, 25, 18, 19, 20>>,
               <<8, 11, 7, 7, 13>>,
               <<8, 13, 11, 5>>,
               <<14, 29, 22, 23, 25, 26>>,
               <<14, 17, 19, 20, 15, 21, 19, 20>>}

conv == <<multiple_choice_questions, true_false_questions, crossword_puzzles,
          images, shared_image_id>>
mc_locals == <<in_mc_section, section_image_id, questions_in_current_section>>
hist == <<first_result, tf_from, mc_from, failed>>
cw_hist == <<cw_head, cw_from>>
converter == <<doc, rels, queue, batch, pc, idx, calls, conv, mc_locals,
               in_true_false_section, cw, hist, cw_hist>>
pipeline == <<args, fs, translations_enabled, ppc, success, executed, outcome>>
vars == <<converter, pipeline>>

Lists == [mc |-> multiple_choice_questions,
          tf |-> true_false_questions,
          cw |-> crossword_puzzles]

NoResult == [mc |-> <<>>, tf |-> <<>>, cw |-> <<NoCrossword>>]

NoOutcome == [setup |-> "none", stage1 |-> "none", stage2 |-> "none",
              stage3 |-> "none"]

\* H5PPipeline.__init__
PipelineConstructed ==
  /\ translations_enabled = FALSE
  /\ success = FALSE
  /\ executed = <<>>
  /\ outcome = NoOutcome

\* run_pipeline.py is not running
PipelineOff ==
  /\ args = [stage |-> 0, skip_translations |-> FALSE]
  /\ fs = [batch_script |-> FALSE, combine_script |-> FALSE,
           translations_script |-> FALSE, english_docs |-> "missing",
           activity_folders |-> FALSE]
  /\ ppc = "off"
  /\ PipelineConstructed

\* CompleteH5PConverter.__init__
Constructed ==
  /\ multiple_choice_questions = <<>>
  /\ true_false_questions = <<>>
  /\ crossword_puzzles = <<>>
  /\ images = {}
  /\ shared_image_id = None

Init ==
  /\ \/ batch = FALSE /\ doc \in Docs /\ rels \in Rels(doc) /\ queue = <<>>
     \/ /\ batch = TRUE /\ doc = <<>> /\ rels = <<>>
        /\ queue \in SeqsUpTo(FolderDocs, MaxFiles)
  /\ pc = "idle"
  /\ idx = 0
  /\ calls = 0
  /\ Constructed
  /\ in_mc_section = FALSE
  /\ section_image_id = None
  /\ questions_in_current_section = <<>>
  /\ in_true_false_section = FALSE
  /\ cw = cw_start
  /\ first_result = NoResult
  /\ tf_from = <<>>
  /\ mc_from = <<>>
  /\ failed = 0
  /\ cw_head = -1
  /\ cw_from = <<>>
  /\ PipelineOff

(***************************************************************************)
(* Actions.                                                                *)
(***************************************************************************)
\* main(), single-file mode: converter.process_docx(docx_path); a caller may
\* call it again on the same converter
process_docx ==
  /\ ~batch
  /\ pc = "idle"
  /\ calls < MaxRuns
  /\ pc' = "open"
  /\ calls' = calls + 1
  /\ UNCHANGED <<doc, rels, queue, batch, idx, conv, mc_locals,
                 in_true_false_section, cw, hist>>
  /\ UNCHANGED cw_hist
  /\ UNCHANGED pipeline

\* a faulty variant of reset, for fault injection: true_false_questions is
\* left as it is
reset_keeps_true_false ==
  /\ multiple_choice_questions' = <<>>
  /\ true_false_questions' = true_false_questions
  /\ crossword_puzzles' = <<>>
  /\ images' = {}
  /\ shared_image_id' = None

\* CompleteH5PConverter.reset
reset ==
  /\ multiple_choice_questions' = <<>>
  /\ true_false_questions' = <<>>
  /\ crossword_puzzles' = <<>>
  /\ images' = {}
  /\ shared_image_id' = None

\* process_folder: one turn of the loop over docx_files, up to the call of
\* process_docx
process_folder ==
  /\ batch
  /\ pc = "idle"
  /\ queue # <<>>
  /\ reset
  /\ doc' = Head(queue)
  /\ rels' \in Rels(Head(queue))
  /\ queue' = Tail(queue)
  /\ pc' = "open"
  /\ calls' = calls + 1
  /\ tf_from' = <<>>
  /\ mc_from' = <<>>
  /\ UNCHANGED <<batch, idx, mc_locals, in_true_false_section, cw,
                 first_result, failed>>
  /\ UNCHANGED cw_hist
  /\ UNCHANGED pipeline

\* the keys of images_info: the loop over doc.part.rels.items() keeps the id
\* of each relationship whose target_ref contains "image", and ends at the
\* first of them whose target_part raises, with the ids kept before it
extract_images_from_docx(part_rels) ==
  LET is_image(k) == Contains(part_rels[k].target_ref, "image")
      raises == {k \in DOMAIN part_rels :
                   is_image(k) /\ part_rels[k].is_external}
      last == IF raises = {} THEN Len(part_rels) ELSE Min(raises) - 1
  IN {part_rels[k].rel_id : k \in {j \in 1..last : is_image(j)}}

\* process_docx opens the document and calls
\* extract_multiple_choice_questions, which runs to its loop
extract_multiple_choice_questions_begin ==
  /\ pc = "open"
  /\ pc' = "mc"
  /\ idx' = 0
  /\ images' = extract_images_from_docx(rels)
  /\ in_mc_section' = FALSE
  /\ section_image_id' = None
  /\ questions_in_current_section' = <<>>
  /\ UNCHANGED <<doc, rels, queue, batch, calls, multiple_choice_questions,
                 true_false_questions, crossword_puzzles, shared_image_id,
                 in_true_false_section, cw, hist>>
  /\ UNCHANGED cw_hist
  /\ UNCHANGED pipeline

extract_multiple_choice_questions_iter ==
  /\ pc = "mc"
  /\ idx < Len(doc)
  /\ \E st \in {extract_multiple_choice_questions_body(
                   [in_mc_section |-> in_mc_section,
                    section_image_id |-> section_image_id,
                    questions_in_current_section |-> questions_in_current_section,
                    multiple_choice_questions |-> multiple_choice_questions,
                    shared_image_id |-> shared_image_id], doc, idx)} :
        /\ in_mc_section' = st.in_mc_section
        /\ section_image_id' = st.section_image_id
        /\ questions_in_current_section' = st.questions_in_current_section
        /\ multiple_choice_questions' = st.multiple_choice_questions
        /\ shared_image_id' = st.shared_image_id
        /\ mc_from' = IF Len(st.multiple_choice_questions)
                           > Len(multiple_choice_questions)
                      THEN Append(mc_from, idx) ELSE mc_from
  /\ idx' = idx + 1
  /\ UNCHANGED <<doc, rels, queue, batch, pc, calls, true_false_questions,
                 crossword_puzzles, images, in_true_false_section, cw,
                 first_result, tf_from, failed>>
  /\ UNCHANGED cw_hist
  /\ UNCHANGED pipeline

\* a faulty variant of extract_true_false_questions_begin, for fault
\* injection: the True/False pass starts by clearing the multiple-choice list
extract_true_false_questions_clears_mc ==
  /\ pc = "mc"
  /\ idx = Len(doc)
  /\ pc' = "tf"
  /\ idx' = 0
  /\ in_true_false_section' = FALSE
  /\ multiple_choice_questions' = <<>>
  /\ UNCHANGED <<doc, rels, queue, batch, calls, true_false_questions,
                 crossword_puzzles, images, shared_image_id, mc_locals, cw,
                 hist>>
  /\ UNCHANGED cw_hist
  /\ UNCHANGED pipeline

\* the multiple-choice loop ends; process_docx calls
\* extract_true_false_questions, which runs to its loop
extract_true_false_questions_begin ==
  /\ pc = "mc"
  /\ idx = Len(doc)
  /\ pc' = "tf"
  /\ idx' = 0
  /\ in_true_false_section' = FALSE
  /\ UNCHANGED <<doc, rels, queue, batch, calls, conv, mc_locals, cw, hist>>
  /\ UNCHANGED cw_hist
  /\ UNCHANGED pipeline

extract_true_false_questions_iter ==
  /\ pc = "tf"
  /\ idx < Len(doc)
  /\ \E st \in {extract_true_false_questions_body(
                   [in_true_false_section |-> in_true_false_section,
                    true_false_questions |-> true_false_questions],
                   Analysis[doc[idx + 1]])} :
        /\ in_true_false_section' = st.in_true_false_section
        /\ true_false_questions' = st.true_false_questions
        /\ tf_from' = IF Len(st.true_false_questions) > Len(true_false_questions)
                      THEN Append(tf_from, idx) ELSE tf_from
  /\ idx' = idx + 1
  /\ UNCHANGED <<doc, rels, queue, batch, pc, calls, multiple_choice_questions,
                 crossword_puzzles, images, shared_image_id, mc_locals, cw,
                 first_result, mc_from, failed>>
  /\ UNCHANGED cw_hist
  /\ UNCHANGED pipeline

\* the true/false loop ends; process_docx calls extract_crossword_puzzles,
\* which runs to its loop
extract_crossword_puzzles_begin ==
  /\ pc = "tf"
  /\ idx = Len(doc)
  /\ pc' = "cw"
  /\ cw' = cw_start
  /\ UNCHANGED <<doc, rels, queue, batch, idx, calls, conv, mc_locals,
                 in_true_false_section, hist>>
  /\ cw_head' = -1
  /\ cw_from' = <<>>
  /\ UNCHANGED pipeline

extract_crossword_puzzles_iter ==
  /\ pc = "cw"
  /\ cw.i < Len(doc)
  /\ cw' = extract_crossword_puzzles_body(cw, doc)
  /\ UNCHANGED <<doc, rels, queue, batch, pc, idx, calls, conv, mc_locals,
                 in_true_false_section, hist>>
  /\ cw_head' = IF Analysis[doc[cw.i + 1]].text # ""
                    /\ Analysis[doc[cw.i + 1]].cw_match.matched
                 THEN cw.i ELSE cw_head
  /\ cw_from' = IF Len(cw'.crosswords) > Len(cw.crosswords)
                 THEN Append(cw_from, cw_head) ELSE cw_from
  /\ UNCHANGED pipeline

\* the crossword loop ends: the final crossword is saved and the list stored
extract_crossword_puzzles_end ==
  /\ pc = "cw"
  /\ cw.i >= Len(doc)
  /\ crossword_puzzles' = append_if_clues(cw.crosswords, cw.current_crossword)
  /\ pc' = "save"
  /\ first_result' = IF calls = 1
                     THEN [Lists EXCEPT !.cw = crossword_puzzles']
                     ELSE first_result
  /\ UNCHANGED <<doc, rels, queue, batch, idx, calls, multiple_choice_questions,
                 true_false_questions, images, shared_image_id, mc_locals,
                 in_true_false_section, cw, tf_from, mc_from, failed>>
  /\ cw_head' = cw_head
  /\ cw_from' = IF Len(crossword_puzzles') > Len(cw.crosswords)
                 THEN Append(cw_from, cw_head) ELSE cw_from
  /\ UNCHANGED pipeline

\* process_docx writes the images and the JSON files and returns
save_output ==
  /\ pc = "save"
  /\ pc' = "idle"
  /\ UNCHANGED <<doc, rels, queue, batch, idx, calls, conv, mc_locals,
                 in_true_false_section, cw, hist>>
  /\ UNCHANGED cw_hist
  /\ UNCHANGED pipeline

\* process_docx raises: Document(docx_path) cannot open the file, or a file
\* cannot be written.  process_folder catches it and goes on with the next
\* file; in single-file mode it ends the program
raise_exception ==
  /\ pc \in {"open", "save"}
  /\ pc' = IF batch THEN "idle" ELSE "raised"
  /\ failed' = failed + 1
  /\ UNCHANGED <<doc, rels, queue, batch, idx, calls, conv, mc_locals,
                 in_true_false_section, cw, first_result, tf_from, mc_from>>
  /\ UNCHANGED cw_hist
  /\ UNCHANGED pipeline

Next ==
  \/ process_docx
  \/ process_folder
  \/ extract_multiple_choice_questions_begin
  \/ extract_multiple_choice_questions_iter
  \/ extract_true_false_questions_begin
  \/ extract_true_false_questions_iter
  \/ extract_crossword_puzzles_begin
  \/ extract_crossword_puzzles_iter
  \/ extract_crossword_puzzles_end
  \/ save_output
  \/ raise_exception

Spec == Init /\ [][Next]_vars

\* the crossword loop is sequential code: an iteration that can run does run
FairSpec ==
  /\ Spec
  /\ WF_vars(extract_crossword_puzzles_iter)
  /\ WF_vars(extract_crossword_puzzles_end)

(***************************************************************************)
(* run_pipeline.py: H5PPipeline.  A stage's script runs as a subprocess;   *)
(* what it does is its return code (rc0, rc1: not 0) or an exception of    *)
(* subprocess.run (raised), and for the batch converter the Activity and   *)
(* Module folders it leaves, whichever way it ends.  The project root is   *)
(* shared with the rest of the system: translations.py can be removed at   *)
(* any moment of the run, between two tests and between a test and the     *)
(* subprocess.run that follows it.                                         *)
(***************************************************************************)
\* how subprocess.run of a script can end; a script that is not there does
\* not end with return code 0
SubprocessOutcomes(present) ==
  IF present THEN {"rc0", "rc1", "raised"} ELSE {"rc1", "raised"}

\* the converter, not running
ConverterOff ==
  /\ batch = FALSE /\ doc = <<>> /\ rels = <<>> /\ queue = <<>>
  /\ pc = "idle" /\ idx = 0 /\ calls = 0
  /\ Constructed
  /\ in_mc_section = FALSE
  /\ section_image_id = None
  /\ questions_in_current_section = <<>>
  /\ in_true_false_section = FALSE
  /\ cw = cw_start
  /\ first_result = NoResult
  /\ tf_from = <<>> /\ mc_from = <<>> /\ failed = 0
  /\ cw_head = -1 /\ cw_from = <<>>

\* main() of run_pipeline.py, up to the pipeline object: the arguments parsed
\* (stage 0: --stage not given) and the project root as it is found
PipelineInit ==
  /\ args \in [stage : 0..3, skip_translations : BOOLEAN]
  /\ fs \in [batch_script : BOOLEAN, combine_script : BOOLEAN,
             translations_script : BOOLEAN,
             english_docs : {"missing", "empty", "docx"},
             activity_folders : BOOLEAN]
  /\ ppc = "start"
  /\ PipelineConstructed
  /\ ConverterOff

\* a faulty variant of run_stage, for fault injection: --stage 2 goes to
\* stage 2 at once
run_stage_without_stage_1 ==
  /\ ppc = "start"
  /\ args.stage # 0
  /\ ppc' = IF args.stage = 3 THEN "stage3"
            ELSE IF args.stage = 2 THEN "stage2" ELSE "stage1"
  /\ UNCHANGED <<args, fs, translations_enabled, success, executed, outcome,
                 converter>>

\* main: success = pipeline.run_stage(args.stage); stage 2 begins with stage 1
run_stage ==
  /\ ppc = "start"
  /\ args.stage # 0
  /\ ppc' = IF args.stage = 3 THEN "stage3" ELSE "stage1"
  /\ UNCHANGED <<args, fs, translations_enabled, success, executed, outcome,
                 converter>>

\* main: success = pipeline.run_full_pipeline(skip_translations), which
\* begins with setup_environment
run_full_pipeline ==
  /\ ppc = "start"
  /\ args.stage = 0
  /\ ppc' = "setup"
  /\ UNCHANGED <<args, fs, translations_enabled, success, executed, outcome,
                 converter>>

setup_environment ==
  /\ ppc = "setup"
  /\ IF ~fs.batch_script \/ ~fs.combine_script
     THEN /\ ppc' = "exit"
          /\ success' = FALSE
          /\ outcome' = [outcome EXCEPT !.setup = "failed"]
          /\ UNCHANGED translations_enabled
     ELSE /\ ppc' = "stage1"
          /\ translations_enabled' = (fs.translations_script \/ translations_enabled)
          /\ outcome' = [outcome EXCEPT !.setup = "ok"]
          /\ UNCHANGED success
  /\ UNCHANGED <<args, fs, executed, converter>>

\* stage 1, and what its caller does with the value returned: run_stage(1)
\* returns it, run_stage(2) and run_full_pipeline go on to stage 2 when it is
\* True and return False when it is not.  The stage reads the return code
\* only: the batch converter, once started, may leave an Activity or Module
\* folder and still end with another return code, or with subprocess.run
\* raising
stage_1_convert_docx_to_json ==
  /\ ppc = "stage1"
  /\ \E result \in IF fs.english_docs = "docx"
                   THEN SubprocessOutcomes(fs.batch_script) ELSE {"not run"} :
       \E creates \in IF result = "not run" THEN {FALSE} ELSE BOOLEAN :
         /\ fs' = [fs EXCEPT
                     !.english_docs = IF @ = "missing" THEN "empty" ELSE @,
                     !.activity_folders = @ \/ creates]
         /\ executed' = IF result = "not run" THEN executed
                        ELSE Append(executed, "batch_h5p_converter_final.py")
         /\ outcome' = [outcome EXCEPT
                          !.stage1 = IF result = "rc0" THEN "ok" ELSE "failed"]
         /\ IF result = "rc0" /\ args.stage # 1
            THEN ppc' = "stage2" /\ UNCHANGED success
            ELSE ppc' = "exit" /\ success' = (result = "rc0")
  /\ UNCHANGED <<args, translations_enabled, converter>>

\* stage 2, and what its caller does with the value returned: run_stage(2)
\* returns it, run_full_pipeline goes on when it is True (to stage 3 unless
\* skip_translations, then to stage 4) and returns False when it is not
stage_2_combine_json_to_h5p ==
  /\ ppc = "stage2"
  /\ \E result \in IF fs.activity_folders
                   THEN SubprocessOutcomes(fs.combine_script) ELSE {"not run"} :
       /\ executed' = IF result = "not run" THEN executed
                      ELSE Append(executed, "combine_h5p_auto.py")
       /\ outcome' = [outcome EXCEPT
                        !.stage2 = IF result = "rc0" THEN "ok" ELSE "failed"]
       /\ IF result = "rc0" /\ args.stage = 0
          THEN ppc' = (IF args.skip_translations THEN "stage4" ELSE "stage3")
               /\ UNCHANGED success
          ELSE ppc' = "exit" /\ success' = (result = "rc0")
  /\ UNCHANGED <<args, fs, translations_enabled, converter>>

\* what the caller of stage 3 does with the value returned: run_stage(3)
\* returns it, run_full_pipeline drops it and goes on to stage 4
stage_3_returns(value) ==
  IF args.stage = 3
  THEN ppc' = "exit" /\ success' = value
  ELSE ppc' = "stage4" /\ UNCHANGED success

\* stage 3, up to subprocess.run: it returns True when translations are not
\* enabled and False when translations.py is not there; else it goes on to
\* run the script
stage_3_translate_content ==
  /\ ppc = "stage3"
  /\ IF ~translations_enabled
     THEN /\ outcome' = [outcome EXCEPT !.stage3 = "skipped"]
          /\ stage_3_returns(TRUE)
     ELSE IF ~fs.translations_script
     THEN /\ outcome' = [outcome EXCEPT !.stage3 = "failed"]
          /\ stage_3_returns(FALSE)
     ELSE /\ ppc' = "stage3_run"
          /\ UNCHANGED <<outcome, success>>
  /\ UNCHANGED <<args, fs, translations_enabled, executed, converter>>

\* stage 3, from subprocess.run on: it returns True whatever the return code
\* and when subprocess.run raises.  The script is the one the project root
\* holds now, which may be gone since the test
stage_3_translate_content_run ==
  /\ ppc = "stage3_run"
  /\ \E result \in SubprocessOutcomes(fs.translations_script) :
       /\ executed' = Append(executed, "translations.py")
       /\ outcome' = [outcome EXCEPT
                        !.stage3 = IF result = "rc0" THEN "ok" ELSE "failed"]
       /\ stage_3_returns(TRUE)
  /\ UNCHANGED <<args, fs, translations_enabled, converter>>

\* stage 4 prints the guide; run_full_pipeline prints the summary and
\* returns True
stage_4_create_manual_h5p ==
  /\ ppc = "stage4"
  /\ ppc' = "exit"
  /\ success' = TRUE
  /\ UNCHANGED <<args, fs, translations_enabled, executed, outcome, converter>>

\* the environment: translations.py is removed from the project root while
\* the pipeline runs, before or after a test that found it
translations_script_removed ==
  /\ ppc \in {"start", "setup", "stage1", "stage2", "stage3", "stage3_run",
              "stage4"}
  /\ fs.translations_script
  /\ fs' = [fs EXCEPT !.translations_script = FALSE]
  /\ UNCHANGED <<args, translations_enabled, ppc, success, executed, outcome,
                 converter>>

PipelineNext ==
  \/ run_stage
  \/ run_full_pipeline
  \/ setup_environment
  \/ stage_1_convert_docx_to_json
  \/ stage_2_combine_json_to_h5p
  \/ stage_3_translate_content
  \/ stage_3_translate_content_run
  \/ stage_4_create_manual_h5p
  \/ translations_script_removed

PipelineSpec == PipelineInit /\ [][PipelineNext]_vars

(***************************************************************************)
(* Properties.  What the specification says of a paragraph is written on   *)
(* the paragraph itself (its text and its runs), apart from the patterns   *)
(* of the passes.                                                          *)
(***************************************************************************)
\* the paragraph and what the passes read of it, at 0-based index n of the
\* document
para_at(n) == ParaLib[doc[n + 1]]
read_at(n) == Analysis[doc[n + 1]]

\* the offsets of text at which a whole-word true/false token starts
token_starts(text) == {a \in 0..Len(text) : TrueFalseAt(text, a) # None}

\* the answer the specification gives a true/false paragraph: the last token
\* lower-cased when the run it starts in is bold, its negation otherwise
expected_true_false_answer(para) ==
  LET text == ParaText(para)
      start == Max(token_starts(text))
      token == Lower(Value(TrueFalseAt(text, start)))
  IN IF bold_at(para.runs, start) THEN token ELSE Negate(token)

\* C1: a paragraph that parse_true_false_from_runs handles and that holds a
\* whole-word true/false token gets, as its correct answer, the last token
\* lower-cased when that token starts in a bold run and the token's negation
\* when it starts in a run that is not bold.
C1_AnswerFollowsBoldOfLastToken ==
  (/\ pc = "tf" /\ idx < Len(doc)
   /\ in_true_false_section
   /\ read_at(idx).text # ""
   /\ ~read_at(idx).tf_header
   /\ ~read_at(idx).tf_exit
   /\ read_at(idx).tf_question
   /\ token_starts(ParaText(para_at(idx))) # {})
  => read_at(idx).tf_parsed.correct_answer
       = Some(expected_true_false_answer(para_at(idx)))

\* the offset in the paragraph's text at which run k starts
run_start(runs, k) ==
  LET upto[j \in 1..k] ==
        IF j = 1 THEN 0 ELSE upto[j - 1] + Len(runs[j - 1].text)
  IN upto[k]

\* the offset in the stripped text at which line j starts
line_start(lines, j) ==
  LET upto[n \in 1..j] ==
        IF n = 1 THEN 0 ELSE upto[n - 1] + Len(lines[n - 1]) + 1
  IN upto[j]

\* run k gave characters to line j of the paragraph's stripped text
run_in_line(para, k, j) ==
  LET raw == ParaText(para)
      lead == Len(raw) - Len(LStrip(raw))
      lines == SplitLines(Strip(raw))
      line_from == lead + line_start(lines, j)
      line_to == line_from + Len(lines[j])
      run_from == run_start(para.runs, k)
      run_to == run_from + Len(para.runs[k].text)
  IN (IF run_from > line_from THEN run_from ELSE line_from)
       < (IF run_to < line_to THEN run_to ELSE line_to)

\* the flags the specification gives the options of a question paragraph, in
\* the order of the option lines: an option is correct iff a bold run that
\* is not whitespace gave characters to its line
expected_correct_flags(para) ==
  LET lines == SplitLines(Strip(ParaText(para)))
      flags[j \in 1..Len(lines)] ==
        IF j = 1 THEN <<>>
        ELSE IF option_text_match(lines[j])
        THEN Append(flags[j - 1],
               \E k \in DOMAIN para.runs :
                  /\ para.runs[k].bold
                  /\ Strip(para.runs[k].text) # ""
                  /\ run_in_line(para, k, j))
        ELSE flags[j - 1]
  IN flags[Len(lines)]

\* C2: every option of every multiple-choice question extracted is marked
\* correct iff at least one bold run that is not whitespace gave characters
\* to the option's line, however the text is divided into runs.
C2_CorrectIffBoldRunOnLine ==
  \A q \in DOMAIN mc_from :
     [o \in DOMAIN multiple_choice_questions[q].options |->
        multiple_choice_questions[q].options[o].correct]
       = expected_correct_flags(para_at(mc_from[q]))

\* the clue text of a numbered clue "<n>. <clue text>(optional parenthetical)":
\* the text after the number and its dot, a closing parenthetical left out
clue_without_number(text) ==
  LET rest == Strip(Slice(text, SkipClass(text, 0, DigitSet) + 1, Len(text)))
      opens == {o \in 1..Len(rest) - 2 :
                  /\ Ch(rest, o + 1) = "("
                  /\ ~Contains(Slice(rest, o + 1, Len(rest) - 1), ")")}
  IN IF Ch(rest, Len(rest)) = ")" /\ opens # {}
     THEN Strip(Slice(rest, 0, Min(opens)))
     ELSE rest

\* the crossword pass stands, in a section whose orientation is set, on a
\* numbered clue paragraph that the next paragraph, all capitals, follows
on_numbered_clue_and_answer ==
  /\ pc = "cw"
  /\ cw.i + 1 < Len(doc)
  /\ cw.in_crossword_section
  /\ cw.current_crossword # NoCrossword
  /\ cw.current_orientation # None
  /\ ~read_at(cw.i).cw_match.matched
  /\ ~read_at(cw.i).cw_exit
  /\ read_at(cw.i).numbered_clue # None
  /\ read_at(cw.i + 1).all_caps

\* C3: in a crossword section whose orientation an Across/Down paragraph has
\* set, a numbered clue paragraph followed at once by an all-capitals
\* paragraph appends exactly one clue to the current crossword: the
\* orientation last set, the clue text without its number, and the next
\* paragraph's text with its whitespace collapsed.
C3_NumberedClueTakesNextParagraph ==
  [][on_numbered_clue_and_answer =>
       cw'.current_crossword.clues =
          Append(cw.current_crossword.clues,
                 [orientation |-> Value(cw.current_orientation),
                  clue |-> clue_without_number(read_at(cw.i).text),
                  answer |-> CollapseWs(read_at(cw.i + 1).text)])]_vars

\* "4. A frozen form of water" then "ICE" has given the clue
\* "A frozen form of water" with the answer "ICE"
C3_Witness ==
  /\ pc = "cw"
  /\ cw.i >= 2
  /\ read_at(cw.i - 2).text = "4. A frozen form of water"
  /\ read_at(cw.i - 1).text = "ICE"
  /\ cw.current_crossword # NoCrossword
  /\ cw.current_crossword.clues # <<>>
  /\ cw.current_crossword.clues[Len(cw.current_crossword.clues)]
       = [orientation |-> Value(cw.current_orientation),
          clue |-> "A frozen form of water",
          answer |-> "ICE"]

\* C4: every crossword kept has at least one clue, in the list the pass
\* builds and in crossword_puzzles; a header for which no clue was matched
\* gives no entry.
C4_KeptCrosswordsHaveClues ==
  /\ \A k \in DOMAIN cw.crosswords : cw.crosswords[k].clues # <<>>
  /\ \A k \in DOMAIN crossword_puzzles : crossword_puzzles[k].clues # <<>>

\* the crossword pass has ended on a document with more crossword headers
\* than crosswords kept
C4_Witness ==
  /\ pc = "save"
  /\ crossword_puzzles # <<>>
  /\ Cardinality({n \in 0..Len(doc) - 1 : read_at(n).cw_match.matched})
       > Len(crossword_puzzles)

\* C5: the three passes run twice by the same converter on the same
\* paragraphs leave, after the second run, the lists the first run left.
C5_SecondRunLeavesSameLists ==
  (~batch /\ calls = 2 /\ pc = "save") => Lists = first_result

\* what process_docx extracts from a document with a converter just
\* constructed
fresh_extraction(paragraphs, part_rels) ==
  [mc |-> extract_multiple_choice_questions(<<>>, None, paragraphs)
            .multiple_choice_questions,
   tf |-> extract_true_false_questions(<<>>, paragraphs),
   cw |-> extract_crossword_puzzles(paragraphs),
   images |-> extract_images_from_docx(part_rels),
   shared_image_id |-> extract_multiple_choice_questions(<<>>, None, paragraphs)
                         .shared_image_id]

\* C6: in batch mode every document starts from empty accumulators, and what
\* is extracted from it is what a converter just constructed extracts, also
\* after a document whose processing raised.
C6_BatchDocumentsStartEmpty ==
  batch =>
    /\ pc = "open" => Constructed
    /\ pc = "save" =>
         [mc |-> multiple_choice_questions,
          tf |-> true_false_questions,
          cw |-> crossword_puzzles,
          images |-> images,
          shared_image_id |-> shared_image_id] = fresh_extraction(doc, rels)

\* the second file of a folder has been extracted after the first one raised
C6_Witness ==
  /\ batch
  /\ calls = 2
  /\ failed = 1
  /\ pc = "save"
  /\ true_false_questions # <<>>
  /\ multiple_choice_questions = <<>>

\* C7: in each pass, when a paragraph that matches the pass's entry pattern
\* has been processed the pass is in its section, also when the paragraph
\* matches the pass's exit trigger.
C7_EntryWinsOverExit ==
  [][/\ (pc = "mc" /\ idx < Len(doc)
           /\ read_at(idx).text # "" /\ read_at(idx).mc_header)
        => in_mc_section'
     /\ (pc = "tf" /\ idx < Len(doc)
           /\ read_at(idx).text # "" /\ read_at(idx).tf_header)
        => in_true_false_section'
     /\ (pc = "cw" /\ cw.i < Len(doc)
           /\ read_at(cw.i).text # "" /\ read_at(cw.i).cw_match.matched)
        => cw'.in_crossword_section]_vars

\* a question was extracted right after a paragraph that matches the
\* multiple-choice entry pattern and exit trigger, and the crossword pass is
\* in its section after a header that matches its exit trigger
C7_Witness ==
  /\ pc = "cw"
  /\ mc_from # <<>>
  /\ mc_from[1] >= 1
  /\ read_at(mc_from[1] - 1).mc_header
  /\ read_at(mc_from[1] - 1).mc_exit
  /\ cw.i >= 1
  /\ read_at(cw.i - 1).cw_match.matched
  /\ read_at(cw.i - 1).cw_exit
  /\ cw.in_crossword_section

\* C8: on a document without paragraphs the passes end with the three lists
\* empty.
C8_NoParagraphsNoQuestions ==
  doc = <<>> =>
    /\ multiple_choice_questions = <<>>
    /\ true_false_questions = <<>>
    /\ crossword_puzzles = <<>>

\* the three passes have ended on a document without paragraphs
C8_Witness ==
  /\ doc = <<>>
  /\ calls >= 1
  /\ pc = "save"
  /\ failed = 0

\* the paragraph's runs that hold text are bold, and its text mentions
\* "activity" or "quiz" and neither "true" nor "false"
bold_header(n) ==
  /\ read_at(n).text # ""
  /\ \A k \in DOMAIN para_at(n).runs :
        Strip(para_at(n).runs[k].text) # "" => para_at(n).runs[k].bold
  /\ \/ Contains(Lower(read_at(n).text), "activity")
     \/ Contains(Lower(read_at(n).text), "quiz")
  /\ ~Contains(Lower(read_at(n).text), "true")
  /\ ~Contains(Lower(read_at(n).text), "false")

\* C9: in a True/False section a bolded header that mentions "activity" or
\* "quiz" and neither "true" nor "false" ends the section: no question comes
\* from a paragraph after it unless a True/False header stands between.
C9_BoldHeaderEndsTrueFalseSection ==
  \A q \in DOMAIN tf_from :
     ~\E n \in 0..tf_from[q] - 1 :
         /\ bold_header(n)
         /\ \E h \in 0..n - 1 : read_at(h).tf_header
         /\ ~\E h \in n + 1..tf_from[q] - 1 : read_at(h).tf_header

\* the digits at offset a of text write an integer that is 2 or more
at_least_two(text, a) ==
  LET upto == SkipClass(text, a, DigitSet)
      digits == Slice(text, SkipClass(text, a, {"0"}), upto)
  IN upto > a /\ Len(digits) >= 1 /\ digits # "1"

\* the paragraph is an "Activity N" header with N >= 2
activity_header_from_two(n) ==
  \E a \in 0..Len(read_at(n).text) :
     /\ LitAt(Lower(read_at(n).text), a, "activity")
     /\ at_least_two(read_at(n).text,
                     SkipClass(read_at(n).text, a + 8, SpaceSet))

\* C10: in a multiple-choice section an "Activity N" header with N >= 2, two
\* digits included, that is no entry header ends the section: no question
\* comes from a paragraph after it unless an entry header stands between.
C10_ActivityHeaderEndsQuizSection ==
  \A q \in DOMAIN mc_from :
     ~\E n \in 0..mc_from[q] - 1 :
         /\ activity_header_from_two(n)
         /\ ~read_at(n).mc_header
         /\ \E h \in 0..n - 1 : read_at(h).mc_header
         /\ ~\E h \in n + 1..mc_from[q] - 1 : read_at(h).mc_header

\* the crossword in progress has at least one clue and the cursor stands on
\* the next crossword header, on an exit trigger, or past the last paragraph
crossword_due ==
  /\ pc = "cw"
  /\ cw.current_crossword # NoCrossword
  /\ cw.current_crossword.clues # <<>>
  /\ IF cw.i >= Len(doc) THEN TRUE
     ELSE /\ read_at(cw.i).text # ""
          /\ read_at(cw.i).cw_match.matched \/ read_at(cw.i).cw_exit

\* C11: a crossword in progress that has at least one clue is appended to the
\* result list exactly once, at the first of the next crossword header, an
\* exit trigger and the end of the paragraphs: the step taken there appends
\* it, under a header that no crossword of the list came from and that lies
\* after all of theirs, and no other step of the pass changes the list
C11_CrosswordAppendedOnceInOrder ==
  [][pc = "cw" =>
       \E after \in {IF pc' = "cw" THEN cw'.crosswords ELSE crossword_puzzles'} :
         IF crossword_due
         THEN /\ after = Append(cw.crosswords, cw.current_crossword)
              /\ cw_from' = Append(cw_from, cw_head)
              /\ \A k \in DOMAIN cw_from : cw_from[k] < cw_head
              /\ cw.current_crossword.title = full_title(read_at(cw_head).cw_match)
         ELSE after = cw.crosswords /\ cw_from' = cw_from]_vars

\* two crosswords were kept, the first at the next header and the second at an
\* exit trigger, after which the paragraphs ended
C11_Witness ==
  /\ pc = "save"
  /\ Len(crossword_puzzles) = 2
  /\ cw_from = <<0, 4>>
  /\ cw.current_crossword = NoCrossword
  /\ read_at(Len(doc) - 1).cw_exit

\* the option texts of a question paragraph as authored: for each option line
\* of the stripped text, in order, what follows the letter and the dot
authored_option_texts(para) ==
  LET lines == SplitLines(Strip(ParaText(para)))
      texts[j \in 1..Len(lines)] ==
        IF j = 1 THEN <<>>
        ELSE IF option_text_match(lines[j])
        THEN Append(texts[j - 1],
                    RStripDots(Strip(Slice(lines[j], 2, Len(lines[j])))))
        ELSE texts[j - 1]
  IN texts[Len(lines)]

\* C12: every multiple-choice question extracted has between 1 and 4 options,
\* and its options are in the order of the option lines of its paragraph,
\* also when an option letter stands on more than one line
C12_OneToFourOptionsInOrder ==
  \A q \in DOMAIN multiple_choice_questions :
     /\ Len(multiple_choice_questions[q].options) \in 1..4
     /\ [k \in DOMAIN multiple_choice_questions[q].options |->
           multiple_choice_questions[q].options[k].text]
          = authored_option_texts(para_at(mc_from[q]))

\* the paragraphs from 5 before index p to 3 after it, clipped to the document
window_5_before_3_after(paragraphs, p) ==
  {k \in 0..Len(paragraphs) - 1 : p - 5 <= k /\ k <= p + 3}

\* C13: for a question at paragraph index p, find_image_near_paragraph
\* returns an image id whenever a paragraph from 5 before p to 3 after p
\* holds an embedded image, and none only when no paragraph of that window
\* holds one
C13_ImageWindowFiveBeforeThreeAfter ==
  \A q \in DOMAIN multiple_choice_questions :
     (find_image_near_paragraph(doc, mc_from[q]) # None)
       <=> \E k \in window_5_before_3_after(doc, mc_from[q]) :
              ParaLib[doc[k + 1]].image # None

\* the index of the header of the section the paragraph at index p lies in:
\* the last section-entry header before p
section_of(p) ==
  Max({h \in 0..p - 1 : read_at(h).text # "" /\ read_at(h).mc_header})

\* the image found for the paragraph of question q itself, None without one
own_image(q) == find_image_near_paragraph(doc, mc_from[q])

\* the section-level image of the section whose header is at index h
section_image(h) == find_image_near_paragraph(doc, h)

\* C14: a question with no image of its own gets the image of its section as
\* image_id; and once the multiple-choice pass is over, shared_image_id is set
\* to a section's image only if that section had a section-level image and a
\* question extracted in that section had no image of its own
C14_SharedImageOnlyWhenUsed ==
  /\ \A q \in DOMAIN multiple_choice_questions :
        own_image(q) = None
          => multiple_choice_questions[q].image_id = section_image(section_of(mc_from[q]))
  /\ (pc \in {"tf", "cw", "save"} /\ (batch \/ calls = 1) /\ shared_image_id # None)
       => \E h \in 0..Len(doc) - 1 :
             /\ read_at(h).text # "" /\ read_at(h).mc_header
             /\ section_image(h) = shared_image_id
             /\ \E q \in DOMAIN multiple_choice_questions :
                   section_of(mc_from[q]) = h /\ own_image(q) = None

\* the texts, stripped, of the bold runs of a paragraph that match the
\* all-capitals pattern, in the order of the runs
all_caps_bold_runs(para) ==
  LET found[k \in 0..Len(para.runs)] ==
        IF k = 0 THEN <<>>
        ELSE IF para.runs[k].bold /\ is_all_caps(Strip(para.runs[k].text))
        THEN Append(found[k - 1], Strip(para.runs[k].text))
        ELSE found[k - 1]
  IN found[Len(para.runs)]

\* the text holds a parenthetical "(...)"
has_parenthetical(text) ==
  \E o \in 1..Len(text), c \in 1..Len(text) :
     o < c /\ Ch(text, o) = "(" /\ Ch(text, c) = ")"

\* the crossword pass stands, in a section whose orientation is set, on a
\* paragraph that is neither a header, an exit trigger, a Clues marker, an
\* orientation paragraph nor a numbered clue
on_plain_paragraph_in_section ==
  /\ pc = "cw"
  /\ cw.i < Len(doc)
  /\ cw.in_crossword_section
  /\ cw.current_crossword # NoCrossword
  /\ cw.current_orientation # None
  /\ read_at(cw.i).text # ""
  /\ ~read_at(cw.i).cw_match.matched
  /\ ~read_at(cw.i).cw_exit
  /\ ~read_at(cw.i).clues_marker
  /\ read_at(cw.i).orientation = None
  /\ read_at(cw.i).numbered_clue = None

\* ... on an un-numbered clue with a parenthetical, which a paragraph with a
\* bold all-capitals run follows
on_plain_clue_and_bold_answer ==
  /\ on_plain_paragraph_in_section
  /\ cw.i + 1 < Len(doc)
  /\ has_parenthetical(read_at(cw.i).text)
  /\ all_caps_bold_runs(para_at(cw.i + 1)) # <<>>

\* C15: in a crossword section whose orientation is set, an un-numbered
\* paragraph holding a parenthetical, followed at once by a paragraph with a
\* bold run whose text matches the all-capitals pattern, appends exactly one
\* clue: the first paragraph's text as the clue and the matching bold run's
\* text, whitespace collapsed, as the answer, wherever the matching run
\* stands among the bold runs of the answer paragraph
C15_PlainClueTakesMatchingBoldRun ==
  [][on_plain_clue_and_bold_answer =>
       cw'.current_crossword.clues =
          Append(cw.current_crossword.clues,
                 [orientation |-> Value(cw.current_orientation),
                  clue |-> read_at(cw.i).text,
                  answer |-> CollapseWs(
                     Head(all_caps_bold_runs(para_at(cw.i + 1))))])]_vars

\* the paragraph at index k is the last orientation paragraph (text that is
\* not empty and begins with Across or Down) the crossword pass has gone past
\* since the header of the crossword in progress
last_orientation_paragraph(k) ==
  /\ cw_head < k /\ k < cw.i
  /\ read_at(k).text # ""
  /\ read_at(k).orientation # None
  /\ \A j \in k + 1..cw.i - 1 :
        read_at(j).text = "" \/ read_at(j).orientation = None

\* C16: inside a crossword section every paragraph that is not empty and
\* whose text begins with Across or Down sets the current orientation to
\* that word, whatever paragraph precedes it: the orientation the clues
\* matched next carry is that of the last such paragraph gone past
C16_OrientationParagraphSetsOrientation ==
  (pc = "cw" /\ cw.in_crossword_section /\ cw.current_crossword # NoCrossword)
    => \A k \in 0..Len(doc) - 1 :
          last_orientation_paragraph(k)
            => cw.current_orientation = read_at(k).orientation

\* the answer is upper-case, has no whitespace at its ends, and its only
\* whitespace is single spaces
normalised_answer(answer) ==
  /\ Upper(answer) = answer
  /\ Ch(answer, 1) \notin SpaceSet
  /\ Ch(answer, Len(answer)) \notin SpaceSet
  /\ \A k \in 1..Len(answer) :
        Ch(answer, k) \in SpaceSet
          => Ch(answer, k) = " " /\ Ch(answer, k + 1) \notin SpaceSet

\* every clue of the crosswords has an orientation and a normalised answer
clues_well_formed(crosswords) ==
  \A c \in DOMAIN crosswords :
     \A k \in DOMAIN crosswords[c].clues :
        /\ crosswords[c].clues[k].orientation \in {"across", "down"}
        /\ normalised_answer(crosswords[c].clues[k].answer)

\* C17: every clue of every crossword, in the list the pass builds, in the
\* crossword in progress and in crossword_puzzles, has the orientation
\* "across" or "down" and an answer that is upper-case, without whitespace at
\* its ends and with single spaces inside, whichever of the three clue paths
\* (inline, pattern 1, pattern 2) gave it
C17_CluesHaveOrientationAndNormalisedAnswer ==
  /\ clues_well_formed(crossword_puzzles)
  /\ clues_well_formed(cw.crosswords)
  /\ clues_well_formed(<<cw.current_crossword>>)

\* one crossword was kept with a clue of each path: the inline clue with the
\* answer "ICE CUBE" (bold run "ice  cube"), the numbered clue with the answer
\* "DRY ICE" (paragraph "DRY  ICE") and the un-numbered clue with "STEAM"
C17_Witness ==
  /\ pc = "save"
  /\ Len(crossword_puzzles) = 1
  /\ [k \in DOMAIN crossword_puzzles[1].clues |->
        crossword_puzzles[1].clues[k].answer] = <<"ICE CUBE", "DRY ICE", "STEAM">>
  /\ doc = <<14, 29, 22, 23, 25, 26>>

\* the question text the specification gives a True/False paragraph: all of
\* its run texts joined in order, cut at the start of the last true/false
\* token and trimmed
expected_question_text(para) ==
  Strip(Slice(ParaText(para), 0, Max(token_starts(ParaText(para)))))

\* C20: the question text of every True/False question extracted is the full
\* text of its paragraph, the concatenation of all of its run texts in order
\* with the whitespace-only runs, cut at the start of the last true/false
\* token and trimmed
C20_QuestionTextIsFullTextBeforeToken ==
  \A q \in DOMAIN true_false_questions :
     /\ token_starts(ParaText(para_at(tf_from[q]))) # {}
     /\ true_false_questions[q].question
          = expected_question_text(para_at(tf_from[q]))


(***************************************************************************)
(* Properties of the pipeline.                                             *)
(***************************************************************************)
\* C18: run_full_pipeline returns True if all stages succeeded and False
\* otherwise: the value it returns is False when the environment setup,
\* stage 1, stage 2 or stage 3 (the translation, when it is not skipped)
\* failed
C18_FullPipelineReturnsWhetherAllSucceeded ==
  (ppc = "exit" /\ args.stage = 0)
    => (success <=> \A s \in {"setup", "stage1", "stage2", "stage3"} :
                       outcome[s] # "failed")

\* C19: --stage 3 runs the translation stage: when translations.py is in the
\* project root, run_stage(3) hands it to subprocess.run, as the full
\* pipeline does
C19_StageThreeRunsTranslations ==
  [][(ppc \in {"stage3", "stage3_run"} /\ ppc' = "exit" /\ args.stage = 3
        /\ fs.translations_script)
       => executed' = Append(executed, "translations.py")]_vars

\* the run text parse_true_false_from_runs searches: the texts of the runs
\* that are not whitespace only, joined in order
kept_run_text(para) ==
  LET joined[k \in 0..Len(para.runs)] ==
        IF k = 0 THEN ""
        ELSE IF Strip(para.runs[k].text) # ""
        THEN joined[k - 1] \o para.runs[k].text
        ELSE joined[k - 1]
  IN joined[Len(para.runs)]

\* the True/False pass stands, inside a section and not on the paragraph that
\* ends it, on a paragraph whose run text holds no whole-word true/false token
on_paragraph_without_token ==
  /\ pc = "tf"
  /\ idx < Len(doc)
  /\ in_true_false_section
  /\ ~read_at(idx).tf_exit
  /\ token_starts(kept_run_text(para_at(idx))) = {}

\* C22: a paragraph inside a True/False section in whose run text no
\* whole-word true/false token is found yields no question:
\* parse_true_false_from_runs returns (None, None), the true/false list and
\* the section state are unchanged, and the pass goes on with the next
\* paragraph
C22_ParagraphWithoutTokenIsSkipped ==
  [][on_paragraph_without_token =>
       /\ parse_true_false_from_runs(para_at(idx))
            = [question_text |-> None, correct_answer |-> None]
       /\ true_false_questions' = true_false_questions
       /\ in_true_false_section' = in_true_false_section
       /\ pc' = "tf" /\ idx' = idx + 1]_vars

\* the pass has gone past "Water is wet" + " " + bold "True" inside a
\* section: the paragraph's text ends in a token, its run text holds none,
\* and no question came of it
C22_Witness ==
  /\ pc = "tf"
  /\ idx = 2
  /\ doc = <<1, 4>>
  /\ in_true_false_section
  /\ read_at(1).tf_question
  /\ true_false_questions = <<>>

\* the text of a numbered line "<digits>. <text>", None for any other line
numbered_line_text(line) ==
  LET l == Strip(line)
      d == SkipClass(l, 0, DigitSet)
  IN IF d >= 1 /\ Ch(l, d + 1) = "." /\ Ch(l, d + 2) \in SpaceSet
     THEN Some(Strip(Slice(l, d + 1, Len(l))))
     ELSE None

\* the clue texts of the numbered lines an orientation paragraph holds after
\* its orientation word (6 characters of Across, 4 of Down)
numbered_lines_after_orientation(para, orientation) ==
  LET text == Strip(ParaText(para))
      rest == Strip(Slice(text, IF orientation = "across" THEN 6 ELSE 4,
                          Len(text)))
      lines == IF rest = "" THEN <<>> ELSE SplitLines(rest)
      texts == [k \in DOMAIN lines |-> numbered_line_text(lines[k])]
      kept == SelectSeq(texts, LAMBDA t : t # None)
  IN [k \in DOMAIN kept |-> Value(kept[k])]

\* the bold runs of a paragraph whose trimmed text is longer than 2
\* characters
long_bold_runs(para) ==
  SelectSeq(para.runs, LAMBDA r : r.bold /\ Len(Strip(r.text)) > 2)

\* k numbered lines and m bold runs give k * m clues: the lines in order,
\* each with every run in order
expected_inline_clues(para, orientation) ==
  LET lines == numbered_lines_after_orientation(para, orientation)
      bold == long_bold_runs(para)
      m == Len(bold)
  IN [n \in 1..Len(lines) * m |->
        [orientation |-> orientation,
         clue |-> lines[((n - 1) \div m) + 1],
         answer |-> CollapseWs(Upper(Strip(bold[((n - 1) % m) + 1].text)))]]

\* the crossword pass stands, inside a crossword, on a paragraph that begins
\* with Across or Down
on_orientation_paragraph ==
  /\ pc = "cw"
  /\ cw.i < Len(doc)
  /\ cw.in_crossword_section
  /\ cw.current_crossword # NoCrossword
  /\ read_at(cw.i).text # ""
  /\ ~read_at(cw.i).cw_match.matched
  /\ ~read_at(cw.i).cw_exit
  /\ ~read_at(cw.i).clues_marker
  /\ read_at(cw.i).orientation # None

\* C23: an orientation paragraph that holds k numbered clue lines after the
\* orientation word and m bold runs of trimmed length over 2 appends exactly
\* k * m clues to the crossword, each numbered line with every such run, with
\* the newly set orientation, the line's clue text and the run's upper-cased,
\* whitespace-collapsed text as answer; with m = 0 it appends nothing
C23_InlineCluesPairLinesWithBoldRuns ==
  [][on_orientation_paragraph =>
       /\ cw'.current_orientation = read_at(cw.i).orientation
       /\ cw'.current_crossword.clues =
            cw.current_crossword.clues
              \o expected_inline_clues(para_at(cw.i),
                                       Value(read_at(cw.i).orientation))
       /\ Len(cw'.current_crossword.clues) =
            Len(cw.current_crossword.clues)
              + Len(numbered_lines_after_orientation(
                      para_at(cw.i), Value(read_at(cw.i).orientation)))
                * Len(long_bold_runs(para_at(cw.i)))]_vars

\* the pass has gone past the Down paragraph with two numbered lines and the
\* bold runs "ICE", "dry  steam" and " ok": four clues, none from " ok"
C23_Witness ==
  /\ pc = "cw"
  /\ doc = <<14, 30>>
  /\ cw.i = 2
  /\ cw.current_orientation = Some("down")
  /\ Len(cw.current_crossword.clues) = 4
  /\ cw.current_crossword.clues[2].clue = "Solid water ICE"
  /\ cw.current_crossword.clues[2].answer = "DRY STEAM"
  /\ cw.current_crossword.clues[3].answer = "ICE"

\* a step of the crossword pass records a clue with the next paragraph as
\* its answer: one clue more, and not from the inline lines of an
\* orientation paragraph
pair_matched ==
  /\ pc = "cw"
  /\ cw.i + 1 < Len(doc)
  /\ ~on_orientation_paragraph
  /\ cw'.current_crossword.clues # cw.current_crossword.clues
  /\ Len(cw'.current_crossword.clues) = Len(cw.current_crossword.clues) + 1

\* C24: the crossword pass runs to the end of every paragraph sequence and
\* terminates: a step moves the cursor on by exactly 2 when a clue/answer
\* pair is matched and by exactly 1 otherwise, the cursor never exceeds the
\* number of paragraphs, and, the cursor only growing and a pair moving it
\* past the answer paragraph, a paragraph consumed as an answer is never at
\* the cursor again
C24_CrosswordPassAdvancesAndTerminates ==
  /\ [](pc = "cw" => cw.i <= Len(doc))
  /\ [][(pc = "cw" /\ cw.i < Len(doc)) =>
          /\ pc' = "cw"
          /\ doc' = doc
          /\ cw'.i = IF pair_matched THEN cw.i + 2 ELSE cw.i + 1]_vars
  /\ [][(pc = "cw" /\ cw.i >= Len(doc)) => pc' = "save"]_vars
  /\ (pc = "cw" ~> pc = "save")

\* the pass has matched the pair "4. A frozen form of water" / "ICE" and
\* stands at the end of the document, two paragraphs on
C24_Witness ==
  /\ pc = "cw"
  /\ doc = <<14, 17, 19, 20>>
  /\ cw.i = 4
  /\ Len(cw.current_crossword.clues) = 1
  /\ cw.current_crossword.clues[1].answer = "ICE"

\* the lists and the shared image id of a converter that has run process_docx
\* n times on the paragraphs since it was constructed or reset, each pass
\* computed alone, from its own list and the paragraphs only
passes_alone(n, paragraphs) ==
  LET after[k \in 0..n] ==
        IF k = 0
        THEN [mc |-> <<>>, tf |-> <<>>, cw |-> <<>>, shared_image_id |-> None]
        ELSE LET mc == extract_multiple_choice_questions(
                          after[k - 1].mc, after[k - 1].shared_image_id,
                          paragraphs)
             IN [mc |-> mc.multiple_choice_questions,
                 tf |-> extract_true_false_questions(after[k - 1].tf,
                                                     paragraphs),
                 cw |-> extract_crossword_puzzles(paragraphs),
                 shared_image_id |-> mc.shared_image_id]
  IN after[n]

\* calls of process_docx since the converter was constructed or reset
calls_since_reset == IF batch THEN 1 ELSE calls

\* C25: each pass changes only its own result.  While the multiple-choice
\* pass runs the True/False and crossword lists stay as they are; while the
\* True/False pass runs the multiple-choice list, the crossword list, the
\* image map and the shared image id stay as they are; while the crossword
\* pass runs the multiple-choice and True/False lists stay as they are; and
\* what each pass leaves is what it computes alone from the paragraphs and
\* its own list, so the order of the passes does not matter
C25_EachPassChangesOnlyItsOwnResult ==
  /\ [](pc = "save" =>
          /\ Lists.mc = passes_alone(calls_since_reset, doc).mc
          /\ Lists.tf = passes_alone(calls_since_reset, doc).tf
          /\ Lists.cw = passes_alone(calls_since_reset, doc).cw
          /\ shared_image_id
               = passes_alone(calls_since_reset, doc).shared_image_id)
  /\ [][/\ pc = "mc" => UNCHANGED <<true_false_questions, crossword_puzzles>>
        /\ pc = "tf" => UNCHANGED <<multiple_choice_questions,
                                    crossword_puzzles, images,
                                    shared_image_id>>
        /\ pc = "cw" => UNCHANGED <<multiple_choice_questions,
                                    true_false_questions>>]_vars

\* a document with a multiple-choice, a True/False and a crossword section
\* has gone through the three passes, and each left a result
C25_Witness ==
  /\ pc = "save"
  /\ doc = <<8, 11, 1, 2, 14, 17, 19, 20>>
  /\ Len(multiple_choice_questions) = 1
  /\ Len(true_false_questions) = 1
  /\ Len(crossword_puzzles) = 1

\* paragraph p lies inside a multiple-choice section: after an entry header,
\* with no "Activity N" header, N >= 2, since, and is itself neither
in_quiz_section(p) ==
  LET headers == {h \in 0..p - 1 :
                    read_at(h).text # "" /\ read_at(h).mc_header}
  IN /\ headers # {}
     /\ read_at(p).text # ""
     /\ ~read_at(p).mc_header
     /\ \A n \in Max(headers) + 1..p :
           read_at(n).text = "" \/ ~activity_header_from_two(n)

\* the stem of a first line "<digits>. <stem text>?", with its question mark
\* and without its number; None for any other line
numbered_stem(first_line) ==
  LET line == RStrip(first_line)
      d == SkipClass(line, 0, DigitSet)
  IN IF /\ d >= 1
        /\ Ch(line, d + 1) = "."
        /\ Len(line) >= d + 3
        /\ Ch(line, Len(line)) = "?"
     THEN Some(Strip(Slice(line, d + 1, Len(line))))
     ELSE None

\* the line is a lettered option "A. text" to "D. text"
lettered_option(line) ==
  /\ Len(line) >= 4
  /\ Ch(line, 1) \in {"A", "B", "C", "D"}
  /\ Ch(line, 2) = "."
  /\ Ch(line, 3) \in SpaceSet

\* paragraph p has a numbered question as its first line and a lettered
\* option among its further lines
question_with_option(p) ==
  LET lines == SplitLines(read_at(p).text)
  IN /\ Len(lines) > 1
     /\ numbered_stem(lines[1]) # None
     /\ \E k \in 2..Len(lines) : lettered_option(lines[k])

\* the paragraphs the multiple-choice pass of this call has gone through
mc_pass_done == IF pc = "mc" THEN idx ELSE Len(doc)

\* C26: every paragraph after a multiple-choice section header and before
\* the section's exit, whose first line is "<digits>. <stem text>?" and which
\* has a further line that is a lettered option A-D, yields exactly one
\* multiple-choice question, whose text is the stem without its number,
\* ending in "?"; every other paragraph yields none
C26_OneQuestionPerQuestionParagraphInSection ==
  (pc \in {"mc", "tf", "cw", "save"} /\ calls_since_reset = 1)
    => \A p \in 0..mc_pass_done - 1 :
          LET from_p == {q \in DOMAIN mc_from : mc_from[q] = p}
          IN IF in_quiz_section(p) /\ question_with_option(p)
             THEN /\ Cardinality(from_p) = 1
                  /\ \A q \in from_p :
                        Some(multiple_choice_questions[q].question)
                          = numbered_stem(SplitLines(read_at(p).text)[1])
             ELSE from_p = {}

\* paragraph p lies inside a True/False section: after a True/False header,
\* with no bolded activity or quiz header since
in_true_false_part(p) ==
  LET headers == {h \in 0..p - 1 :
                    read_at(h).text # "" /\ read_at(h).tf_header}
  IN /\ headers # {}
     /\ \A n \in Max(headers) + 1..p : ~bold_header(n)

\* paragraph p lies inside a crossword: after a crossword header, with no
\* exit trigger since
in_crossword_part(p) ==
  LET headers == {h \in 0..p - 1 :
                    read_at(h).text # "" /\ read_at(h).cw_match.matched}
  IN /\ headers # {}
     /\ \A n \in Max(headers) + 1..p :
           read_at(n).text = "" \/ ~read_at(n).cw_exit

\* the document has no section header of any of the three kinds
no_section_header ==
  \A n \in 0..Len(doc) - 1 :
     \/ read_at(n).text = ""
     \/ /\ ~read_at(n).tf_header
        /\ ~read_at(n).mc_header
        /\ ~read_at(n).cw_match.matched

\* C27: records come only from paragraphs inside their own section: a
\* True/False question only from a paragraph after a True/False header and
\* before the next exit of that section, a multiple-choice question only
\* from a paragraph inside a multiple-choice section, a crossword clue only
\* from a paragraph after a crossword header and before the next exit
\* trigger; and a document without any section header leaves the three
\* lists empty
C27_RecordsOnlyFromOwnSection ==
  /\ [](/\ \A q \in DOMAIN tf_from : in_true_false_part(tf_from[q])
        /\ \A q \in DOMAIN mc_from : in_quiz_section(mc_from[q])
        /\ no_section_header => /\ true_false_questions = <<>>
                                /\ multiple_choice_questions = <<>>
                                /\ crossword_puzzles = <<>>)
  /\ [][(/\ pc = "cw"
         /\ cw.i < Len(doc)
         /\ Len(cw'.current_crossword.clues)
              > Len(cw.current_crossword.clues))
          => in_crossword_part(cw.i)]_vars

\* no Across/Down paragraph stands between the header of the crossword in
\* progress and the cursor
no_orientation_since_header ==
  \A n \in cw_head + 1..cw.i - 1 :
     read_at(n).text = "" \/ read_at(n).orientation = None

\* C28: within a crossword no clue is recorded from the paragraphs before the
\* first Across/Down paragraph that follows the crossword's header: the
\* header clears the orientation, which is never inherited from the previous
\* crossword, and a "Clues:" marker alone does not enable clue matching
C28_NoClueBeforeFirstOrientation ==
  (/\ pc = "cw"
   /\ cw_head >= 0
   /\ cw.current_crossword # NoCrossword
   /\ no_orientation_since_header)
    => /\ cw.current_orientation = None
       /\ cw.current_crossword.clues = <<>>

\* the pass has gone through a first crossword with a clue and, after the
\* second header, past "Clues:", a numbered clue and its all-capitals answer,
\* with no Across/Down paragraph since that header
C28_Witness ==
  /\ pc = "cw"
  /\ doc = <<14, 17, 19, 20, 15, 21, 19, 20>>
  /\ cw.i = 8
  /\ cw_head = 4
  /\ cw.collecting_clues
  /\ Len(cw.crosswords) = 1
  /\ cw.current_crossword.clues = <<>>

(***************************************************************************)
(* The JSON the converter writes and the combiner reads.  A JSON object is *)
(* a record; each of its values, and each element of a list, has its       *)
(* Python type beside it (the values inside an element are left plain);    *)
(* the types and values survive json.dump and json.load unchanged.         *)
(***************************************************************************)
JStr(s) == [type |-> "str", value |-> s]
JList(l) == [type |-> "list", value |-> l]
JDict(d) == [type |-> "dict", value |-> d]
JBool(b) == [type |-> "bool", value |-> b]
JInt(n) == [type |-> "int", value |-> n]
JNone == [type |-> "NoneType", value |-> <<>>]

\* Python's  key in x  for a str key: a key of a dict, a substring of a str,
\* an element of a list; None stands for the TypeError any other x raises
key_in(key, x) ==
  IF x.type = "dict" THEN Some(key \in DOMAIN x.value)
  ELSE IF x.type = "str" THEN Some(Contains(x.value, key))
  ELSE IF x.type = "list"
  THEN Some(\E k \in DOMAIN x.value :
               x.value[k].type = "str" /\ x.value[k].value = key)
  ELSE None

\* the confirmCheck and confirmRetry dialogs of both question JSONs
ConfirmCheck ==
  [header |-> "Finish ?", body |-> "Are you sure you wish to finish ?",
   cancelLabel |-> "Cancel", confirmLabel |-> "Finish"]
ConfirmRetry ==
  [header |-> "Retry ?", body |-> "Are you sure you wish to retry ?",
   cancelLabel |-> "Cancel", confirmLabel |-> "Confirm"]

\* CompleteH5PConverter.create_h5p_question_json
create_h5p_question_json(question_data) ==
  [answers |-> JList([k \in DOMAIN question_data.options |-> JDict(
      [correct |-> question_data.options[k].correct,
       text |-> "<div>" \o question_data.options[k].text \o "</div>\n",
       tipsAndFeedback |-> [tip |-> "", chosenFeedback |-> "",
                            notChosenFeedback |-> ""]])]),
   UI |-> JDict(
     [showSolutionButton |-> "Show solution",
      tryAgainButton |-> "Retry",
      checkAnswerButton |-> "Check",
      tipsLabel |-> "Show tip",
      scoreBarLabel |-> "You got :num out of :total points",
      tipAvailable |-> "Tip available",
      feedbackAvailable |-> "Feedback available",
      readFeedback |-> "Read feedback",
      wrongAnswer |-> "Wrong answer",
      correctAnswer |-> "Correct answer",
      shouldCheck |-> "Should have been checked",
      shouldNotCheck |-> "Should not have been checked",
      noInput |-> "Please answer before viewing the solution",
      submitAnswerButton |-> "Submit",
      a11yCheck |-> "Check the answers.",
      a11yShowSolution |-> "Show the solution.",
      a11yRetry |-> "Retry the task."]),
   question |-> JStr("<p>" \o question_data.question \o "</p>\n"),
   behaviour |-> JDict(
     [enableRetry |-> TRUE, enableSolutionsButton |-> TRUE,
      singlePoint |-> TRUE, randomAnswers |-> TRUE,
      showSolutionsRequiresInput |-> TRUE, type |-> "auto",
      confirmCheckDialog |-> FALSE, confirmRetryDialog |-> FALSE,
      autoCheck |-> FALSE, passPercentage |-> 100,
      showScorePoints |-> TRUE, enableCheckButton |-> TRUE]),
   confirmCheck |-> JDict(ConfirmCheck),
   confirmRetry |-> JDict(ConfirmRetry),
   overallFeedback |-> JList(
     <<JDict([from |-> 0, to |-> 0, feedback |-> "Wrong"]),
       JDict([from |-> 1, to |-> 99, feedback |-> "Almost!"]),
       JDict([from |-> 100, to |-> 100, feedback |-> "Correct!"])>>),
   \* the image of the question, when the converter holds it; of the H5P.Image
   \* parameters the library and the image are kept
   media |-> IF Truthy(question_data.image_id)
                /\ Value(question_data.image_id) \in images
             THEN JDict([type |-> [library |-> "H5P.Image 1.1",
                                   image |-> Value(question_data.image_id)],
                         disableImageZooming |-> TRUE])
             ELSE JDict([disableImageZooming |-> TRUE])]

\* CompleteH5PConverter.create_h5p_true_false_json
create_h5p_true_false_json(question_data) ==
  [media |-> JDict([type |-> <<>>, disableImageZooming |-> FALSE]),
   correct |-> JStr(question_data.correct_answer),
   l10n |-> JDict(
     [trueText |-> "True", falseText |-> "False",
      score |-> "You got @score of @total points",
      checkAnswer |-> "Check",
      showSolutionButton |-> "Show solution",
      tryAgain |-> "Retry",
      wrongAnswerMessage |-> "Wrong answer",
      correctAnswerMessage |-> "Correct answer",
      scoreBarLabel |-> "You got :num out of :total points",
      submitAnswer |-> "Submit",
      a11yCheck |-> "Check the answers. The responses will be marked as correct, incorrect, or unanswered.",
      a11yShowSolution |-> "Show the solution. The task will be marked with its correct solution.",
      a11yRetry |-> "Retry the task. Reset all responses and start the task over again."]),
   behaviour |-> JDict(
     [enableRetry |-> TRUE, enableSolutionsButton |-> TRUE,
      confirmCheckDialog |-> FALSE, confirmRetryDialog |-> FALSE,
      autoCheck |-> FALSE, enableCheckButton |-> TRUE]),
   confirmCheck |-> JDict(ConfirmCheck),
   confirmRetry |-> JDict(ConfirmRetry),
   question |-> JStr("<p>" \o question_data.question \o "</p>\n")]

\* CompleteH5PConverter.create_h5p_crossword_json
create_h5p_crossword_json(crossword_data) ==
  [words |-> JList([k \in DOMAIN crossword_data.clues |-> JDict(
      [fixWord |-> FALSE,
       orientation |-> crossword_data.clues[k].orientation,
       clue |-> crossword_data.clues[k].clue,
       answer |-> crossword_data.clues[k].answer])]),
   overallFeedback |-> JList(<<JDict([from |-> 0, to |-> 100])>>),
   theme |-> JDict(
     [backgroundColor |-> "#222b46", gridColor |-> "#031928",
      cellBackgroundColor |-> "#ffffff", cellColor |-> "#000000",
      clueIdColor |-> "#606060",
      cellBackgroundColorHighlight |-> "#5c9ba9",
      cellColorHighlight |-> "#031928",
      clueIdColorHighlight |-> "#e0e0e0"]),
   behaviour |-> JDict(
     [enableInstantFeedback |-> FALSE, scoreWords |-> TRUE,
      applyPenalties |-> FALSE, enableRetry |-> TRUE,
      enableSolutionsButton |-> TRUE]),
   l10n |-> JDict(
     [across |-> "Across", down |-> "Down", checkAnswer |-> "Check",
      tryAgain |-> "Retry", showSolution |-> "Show solution",
      couldNotGenerateCrossword |-> "Could not generate crossword.",
      couldNotGenerateCrosswordTooFewWords |-> "Need at least two words.",
      probematicWords |-> "Problematic word(s): @words",
      extraClue |-> "Extra clue", closeWindow |-> "Close window",
      submitAnswer |-> "Submit"]),
   a11y |-> JDict(
     [crosswordGrid |-> "Crossword grid.", column |-> "Column",
      row |-> "Row", across |-> "Across", down |-> "Down",
      empty |-> "Empty", resultFor |-> "Result for: @clue",
      correct |-> "Correct", wrong |-> "Wrong", point |-> "point",
      solutionFor |-> "Solution: @solution", check |-> "Check",
      showSolution |-> "Show solution", retry |-> "Retry",
      yourResult |-> "You got @score out of @total points"]),
   taskDescription |-> JStr("<p>" \o crossword_data.title \o "</p>\n")]

\* H5PQuizCombiner.detect_question_type: the value of the QuestionType it
\* returns, or the exception it raises: TypeError when the first of the
\* words cannot hold a key, AttributeError when one of two answers is not a
\* dict (a.get).  Apart from that the block on two answers changes nothing
detect_question_type(json_data) ==
  LET has(key) == key \in DOMAIN json_data
      words_listed == /\ has("words")
                      /\ json_data.words.type = "list"
                      /\ Len(json_data.words.value) > 0
      first_word == json_data.words.value[1]
      answers_listed == has("answers") /\ json_data.answers.type = "list"
      answers == json_data.answers.value
  IN IF words_listed /\ key_in("clue", first_word) = None
     THEN "TypeError"
     ELSE IF /\ words_listed
             /\ Value(key_in("clue", first_word))
             /\ Value(key_in("answer", first_word))
     THEN "crossword"
     ELSE IF /\ has("question")
             /\ has("correct")
             /\ \/ json_data.correct.type = "bool"
                \/ /\ json_data.correct.type = "str"
                   /\ json_data.correct.value \in {"true", "false"}
     THEN "true_false"
     ELSE IF /\ answers_listed
             /\ Len(answers) = 2
             /\ \E k \in DOMAIN answers : answers[k].type # "dict"
     THEN "AttributeError"
     ELSE IF answers_listed /\ has("question")
     THEN "multiple_choice"
     ELSE "unknown"

\* stage s of the pipeline has started: it is running or has returned
stage_started(s) == ppc = s \/ outcome[s] # "none"

\* C30: in every run of the pipeline, the full pipeline or run_stage, stage 2
\* starts only after stage 1 has completed successfully in the same run; in
\* the full pipeline stage 1 starts only after the environment setup
\* succeeded; and a failure of the setup, of stage 1 or of stage 2 stops the
\* run before any later stage starts
C30_StagesStartInOrderAndFailureStops ==
  /\ stage_started("stage2") => outcome.stage1 = "ok"
  /\ (args.stage = 0 /\ stage_started("stage1")) => outcome.setup = "ok"
  /\ outcome.setup = "failed"
       => /\ ppc = "exit"
          /\ \A s \in {"stage1", "stage2", "stage3"} : outcome[s] = "none"
  /\ outcome.stage1 = "failed"
       => /\ ppc = "exit"
          /\ \A s \in {"stage2", "stage3"} : outcome[s] = "none"
  /\ outcome.stage2 = "failed"
       => /\ ppc = "exit"
          /\ outcome.stage3 = "none"
  /\ \A k \in DOMAIN executed :
        executed[k] = "combine_h5p_auto.py"
          => \E j \in 1..k - 1 : executed[j] = "batch_h5p_converter_final.py"

\* --stage 2 has run the batch converter, then the combiner, both with
\* return code 0, and has returned True
C30_Witness ==
  /\ ppc = "exit"
  /\ args.stage = 2
  /\ outcome.stage1 = "ok"
  /\ outcome.stage2 = "ok"
  /\ executed = <<"batch_h5p_converter_final.py", "combine_h5p_auto.py">>
  /\ success

=============================================================================
